---- MODULE Spec2Model ----
(***************************************************************************)
(* A model of the APC UPS-Link orchestrator (apc_ups).                     *)
(*                                                                         *)
(*   Spec       UPSManager: the poll worker, the command mutex, the pause  *)
(*              gate, the transport lock and the connection lifecycle,     *)
(*              with caller threads running user operations.               *)
(*   SpecState  UPSState: update() called by a connecting and              *)
(*              disconnecting thread, against snapshot().                  *)
(*   SpecHistory  the poll worker's updates and history buffers, against   *)
(*              snapshot().                                                *)
(*   SpecEdits  count_edits_needed over the catalogued settings.           *)
(*   SpecPacks  the battery-pack plan of _execute_battery_packs_change.    *)
(*   SpecChange change_setting against a device with its own value cycle.  *)
(*   SpecRead   _read_response_locked on every line content.               *)
(*   SpecCal    CalibrationManager on its own.                             *)
(*   SpecCalOps, SpecCalOpsLive  start_calibration and abort_calibration   *)
(*              called by two threads, without and with fairness.          *)
(*   SpecCmds   the simple and dangerous command operations.               *)
(*   SpecPollErr  the poll worker with device reads that fail.             *)
(*   SpecWire   the protocol methods of three threads on one transport.    *)
(*   SpecTemp   _check_temperature on every temperature and threshold.     *)
(*   SpecWorkers, SpecWorkersLive  start_polling, stop_polling, disconnect *)
(*              and connect in any order with the poll workers they        *)
(*              create, without and with fairness.                         *)
(*   SpecOpen, SpecOpenLive  SerialConnection.open with attempts that      *)
(*              fail, without and with fairness.                           *)
(***************************************************************************)
EXTENDS Integers, Sequences, FiniteSets, TLC

(***************************************************************************)
(* Bounds of the model.                                                    *)
(***************************************************************************)
\* how many commands of FAST_POLL_CMDS / SLOW_POLL_CMDS / ONCE_CMDS a cycle
\* of the model sends (every iteration of those loops is the same code)
MaxFastCmds == 2
MaxSlowCmds == 1
MaxOnceCmds == 1
\* the largest number of edit steps a change_setting of the model runs
MaxEditSteps == 2
\* the caps of the two history buffers, scaled down from the program's 1800
\* (ups_manager.py:737) and 360 (ups_manager.py:752)
BatteryHistoryCap == 2
TemperatureHistoryCap == 1
\* change_setting calls of one behaviour of SpecChange
MaxCalls == 2
\* fast cycles the poll worker of SpecPollErr runs
MaxCycles == 11
\* bytes the device has put on the line in one behaviour of SpecRead
MaxStream == 5
\* samples the poll worker of SpecHistory records per buffer
MaxSamples == 4
\* list objects alive at once: two live buffers, two a snapshot still
\* refers to, one being created
MaxObjs == 5

(***************************************************************************)
(* Program constants.                                                      *)
(***************************************************************************)
FAST_POLL_CMDS == <<"f", "B", "P", "L", "O", "Q">>
SLOW_POLL_CMDS == <<"C", "F", "j", "M", "N">>
\* ups_manager.py:299  "if slow_counter >= 5"
SlowPollEvery == 5

FastCmds == SubSeq(FAST_POLL_CMDS, 1, MaxFastCmds)
SlowCmds == SubSeq(SLOW_POLL_CMDS, 1, MaxSlowCmds)

(***************************************************************************)
(* Threads.  "poll" is the poll worker; the callers run UPSManager         *)
(* operations: "u1" the command operations, "u2" the lifecycle operations, *)
(* the unguarded get_test_result and one guarded command.                  *)
(***************************************************************************)
Callers == {"u1", "u2"}

PausingOps == {"change_setting", "run_self_test",
               "shutdown_turn_off_after_delay", "enter_prog_mode"}
LockingOps == PausingOps \cup {"exit_prog_mode", "prog_adjust"}
\* operations whose finally clause calls _resume_polling
ResumingOps == {"change_setting", "run_self_test",
                "shutdown_turn_off_after_delay", "exit_prog_mode"}
TwoStageOps == {"shutdown_turn_off_after_delay", "enter_prog_mode"}

Menu(t) ==
    IF t = "u1"
    THEN {"change_setting", "run_self_test", "shutdown_turn_off_after_delay",
          "enter_prog_mode", "exit_prog_mode", "prog_adjust"}
    ELSE {"connect", "start_polling", "disconnect", "get_test_result",
          "run_self_test"}

VARIABLES
    \* --- UPSManager ---
    poll_stop,      \* _poll_stop event
    poll_paused,    \* _poll_paused event (set = gate open)
    cmd_lock,       \* owner of _cmd_lock, or "none"
    conn_lock,      \* owner of SerialConnection._lock, or "none"
    port_open,      \* SerialConnection._port is an open port
    protocol,       \* _protocol is not None
    connected,      \* state.connected
    poll_thread,    \* _poll_thread is not None
    \* --- poll worker ---
    ppc,            \* position in _poll_loop
    pphase,         \* "fast" or "slow" command loop
    pidx,           \* index of cmd_char in the loop
    slow_counter,
    \* --- callers ---
    op,             \* operation each caller runs
    pc,             \* its position
    steps,          \* edit steps left in change_setting
    success,        \* the local 'success' / the returned flag
    exc,            \* an exception is propagating out of the operation
    entered,        \* the operation took _cmd_lock
    resumes,        \* _resume_polling calls the operation made
    \* --- UPSState (SpecState) ---
    st,             \* the fields of the UPSState object
    st_lock,        \* owner of UPSState._lock, or "none"
    heap,           \* the list objects the history fields refer to
    spc,            \* position of each thread using the state
    kw,             \* kwargs an update() call has still to apply
    cont,           \* where the thread goes on after update() returns
    calls,          \* update() calls each thread has made
    snap,           \* the dict snapshot() builds and returns
    committed,      \* the fields as the last completed update() left them
    snap_base,      \* 'committed' when snapshot() took the lock
    snap_seen,      \* the history contents when snapshot() returned
    \* --- count_edits_needed (SpecEdits) ---
    e_setting, e_current, e_target, e_result, e_pc,
    \* --- the battery-pack plan (SpecPacks) ---
    k_current, k_target, k_direction, k_steps, k_pc,
    \* --- change_setting against the device (SpecChange) ---
    c_setting,      \* the setting the calls are about
    c_calls,        \* change_setting calls made so far
    d_cycle,        \* the device's edit cycle for the setting
    d_slot,         \* the device's position in the cycle (battery packs: the byte)
    d_text,         \* the device's text of a direct-edit setting
    c_pc, c_target, c_old, c_steps, c_i,   \* position and locals of the call
    c_resp,         \* the last edit response
    c_verify,       \* the final read-back
    c_sent,         \* what the call has written to the device, in order
    c_result,       \* the (success, message) the call returns
    c_field,        \* the state field named by setting.state_key
    c_field0,       \* that field when the call began
    c_faulted,      \* the device refused or an answer was lost in this call
    \* --- UPSProtocol._read_response_locked ---
    r_stream,       \* bytes on the line, not yet read
    r_buf,          \* buf
    r_alerts,       \* the characters handed to _dispatch_alert by this call
    r_seen,         \* the bytes this call has read
    r_pc,           \* "reading" or "returned"
    r_how,          \* which return was taken: "terminator" or "timeout"
    r_result,       \* the return value
    \* --- CalibrationManager ---
    cal_state,              \* self.state
    start_battery_pct,      \* in tenths of a percent
    current_battery_pct,    \* in tenths of a percent
    error_message,
    cs_pct,                 \* the argument of the last can_start
    cs_result,              \* what the last can_start returned
    cal_last,               \* the method called last
    \* --- UPSManager.start_calibration / abort_calibration ---
    a_op,           \* per caller: the operation it runs
    a_pc,           \* per caller: its position
    a_out,          \* per caller: what its send_command("D") gave
    a_ok,           \* per caller: the success flag it returns
    a_lock,         \* owner of _cmd_lock, or "none"
    a_gate,         \* _poll_paused (set = gate open)
    a_proto,        \* _protocol is not None
    a_batt,         \* state.battery_capacity, in tenths of a percent
    dev_cal,        \* the device is discharging for a runtime calibration
    \* --- the simple and dangerous command operations of UPSManager ---
    q_op,           \* the command operation being run, or "none"
    q_pc,           \* its position
    q_proto,        \* _protocol is not None
    q_resp,         \* what the protocol call returned
    q_result,       \* the (success, message) pair returned
    q_logged,       \* _log_message was called
    q_reread,       \* _read_initial_values was called
    \* --- _poll_loop with device reads that fail ---
    w_pc,           \* position of the poll worker in _poll_loop
    w_phase,        \* "fast" or "slow": the loop it is in
    w_idx,          \* index of the next command of that loop
    w_slow,         \* slow_counter
    w_stop,         \* _poll_stop is set
    w_last_error,   \* state.last_error
    w_raised,       \* text of the last exception a device read raised in this cycle
    w_logged,       \* texts passed to logger.error in this cycle
    w_fast_done,    \* fast cycles this worker has completed
    \* --- the transport, as the protocol methods use it ---
    t_lock,         \* owner of SerialConnection._lock, or "none"
    t_open,         \* the serial port is open
    t_op,           \* per thread: the protocol or transport method it runs
    t_cmd,          \* per thread: the command character of that call
    t_pc,           \* per thread: its position in the method
    t_reads,        \* per thread: read(1) calls of the response being read
    wire,           \* the operations performed on the serial port, in order
    \* --- _check_temperature ---
    h_temperature,  \* state.temperature, in degrees
    h_threshold,    \* state.temperature_alert_threshold
    h_active,       \* state.temperature_alert_active
    h_len,          \* len(state.temperature_history)
    h_pc,           \* "idle", or "check": _check_temperature is about to run
    h_said,         \* what the last _check_temperature logged
    \* --- start_polling / stop_polling and the worker threads they create ---
    g_stop,         \* _poll_stop is set
    g_gate,         \* _poll_paused is set: the pause gate is open
    g_thread,       \* _poll_thread: a worker, or 0 for None
    g_connected,    \* state.connected
    g_cop,          \* the lifecycle method the caller runs, or "none"
    g_cpc,          \* its position in that method
    g_user,         \* "busy" while a user command has paused polling
    g_wpc,          \* per worker thread: its position in _poll_loop
    g_wphase,       \* per worker thread: "fast" or "slow"
    g_widx,         \* per worker thread: index of the next command
    g_stopped,      \* per worker thread: stop_polling set the flag while it ran
    g_after,        \* per worker thread: commands it sent since then
    \* --- SerialConnection.open ---
    o_port,         \* SerialConnection._port: "none" or "open"
    o_lock,         \* SerialConnection._lock is held
    o_pc,           \* position of the thread in open()
    o_attempt,      \* the loop variable attempt of open()
    o_outcomes,     \* what each serial.Serial(...) of this call did
    o_last_error,   \* last_error of open(): <<>> or <<kind, attempt>>
    o_raised,       \* the exception open() left with, <<>> if none
    o_calls         \* open() calls begun so far

varsMgr == <<poll_stop, poll_paused, cmd_lock, conn_lock, port_open, protocol,
             connected, poll_thread>>
varsPoll == <<ppc, pphase, pidx, slow_counter>>
varsCall == <<op, pc, steps, success, exc, entered, resumes>>
varsOrch == <<varsMgr, varsPoll, varsCall>>
varsState == <<st, st_lock, heap, spc, kw, cont, calls, snap, committed,
               snap_base, snap_seen>>
varsEdits == <<e_setting, e_current, e_target, e_result, e_pc>>
varsPacks == <<k_current, k_target, k_direction, k_steps, k_pc>>
varsChange == <<c_setting, c_calls, d_cycle, d_slot, d_text, c_pc, c_target,
                c_old, c_steps, c_i, c_resp, c_verify, c_sent, c_result,
                c_field, c_field0, c_faulted>>
varsRead == <<r_stream, r_buf, r_alerts, r_seen, r_pc, r_how, r_result>>
varsCal == <<cal_state, start_battery_pct, current_battery_pct, error_message, cs_pct, cs_result, cal_last>>
varsCalOps == <<a_op, a_pc, a_out, a_ok, a_lock, a_gate, a_proto, a_batt, dev_cal>>
varsCmds == <<q_op, q_pc, q_proto, q_resp, q_result, q_logged, q_reread>>
varsPollErr == <<w_pc, w_phase, w_idx, w_slow, w_stop, w_last_error, w_raised, w_logged, w_fast_done>>
varsWire == <<t_lock, t_open, t_op, t_cmd, t_pc, t_reads, wire>>
varsTemp == <<h_temperature, h_threshold, h_active, h_len, h_pc, h_said>>
varsWorkers == <<g_stop, g_gate, g_thread, g_connected, g_cop, g_cpc, g_user, g_wpc, g_wphase, g_widx, g_stopped, g_after>>
varsOpen == <<o_port, o_lock, o_pc, o_attempt, o_outcomes, o_last_error, o_raised, o_calls>>
\* what the actions of one part leave alone
varsNotOrch == <<varsState, varsEdits, varsPacks, varsChange, varsRead, varsCal, varsCalOps, varsCmds, varsPollErr, varsWire, varsTemp, varsWorkers, varsOpen>>
varsNotState == <<varsOrch, varsEdits, varsPacks, varsChange, varsRead, varsCal, varsCalOps, varsCmds, varsPollErr, varsWire, varsTemp, varsWorkers, varsOpen>>
varsNotEdits == <<varsOrch, varsState, varsPacks, varsChange, varsRead, varsCal, varsCalOps, varsCmds, varsPollErr, varsWire, varsTemp, varsWorkers, varsOpen>>
varsNotPacks == <<varsOrch, varsState, varsEdits, varsChange, varsRead, varsCal, varsCalOps, varsCmds, varsPollErr, varsWire, varsTemp, varsWorkers, varsOpen>>
varsNotChange == <<varsOrch, varsState, varsEdits, varsPacks, varsRead, varsCal, varsCalOps, varsCmds, varsPollErr, varsWire, varsTemp, varsWorkers, varsOpen>>
varsNotRead == <<varsOrch, varsState, varsEdits, varsPacks, varsChange, varsCal, varsCalOps, varsCmds, varsPollErr, varsWire, varsTemp, varsWorkers, varsOpen>>
varsNotCal == <<varsOrch, varsState, varsEdits, varsPacks, varsChange, varsRead, varsCalOps, varsCmds, varsPollErr, varsWire, varsTemp, varsWorkers, varsOpen>>
varsNotCalOps == <<varsOrch, varsState, varsEdits, varsPacks, varsChange, varsRead, varsCal, varsCmds, varsPollErr, varsWire, varsTemp, varsWorkers, varsOpen>>
\* what the calibration operations of the manager leave alone
varsNotCalibration == <<varsOrch, varsState, varsEdits, varsPacks, varsChange, varsRead, varsCmds, varsPollErr, varsWire, varsTemp, varsWorkers, varsOpen>>
varsNotCmds == <<varsOrch, varsState, varsEdits, varsPacks, varsChange, varsRead, varsCal, varsCalOps, varsPollErr, varsWire, varsTemp, varsWorkers, varsOpen>>
varsNotPollErr == <<varsOrch, varsState, varsEdits, varsPacks, varsChange, varsRead, varsCal, varsCalOps, varsCmds, varsWire, varsTemp, varsWorkers, varsOpen>>
varsNotWire == <<varsOrch, varsState, varsEdits, varsPacks, varsChange, varsRead, varsCal, varsCalOps, varsCmds, varsPollErr, varsTemp, varsWorkers, varsOpen>>
varsNotTemp == <<varsOrch, varsState, varsEdits, varsPacks, varsChange, varsRead, varsCal, varsCalOps, varsCmds, varsPollErr, varsWire, varsWorkers, varsOpen>>
varsNotWorkers == <<varsOrch, varsState, varsEdits, varsPacks, varsChange, varsRead, varsCal, varsCalOps, varsCmds, varsPollErr, varsWire, varsTemp, varsOpen>>
varsNotOpen == <<varsOrch, varsState, varsEdits, varsPacks, varsChange, varsRead, varsCal, varsCalOps, varsCmds, varsPollErr, varsWire, varsTemp, varsWorkers>>
vars == <<varsOrch, varsState, varsEdits, varsPacks, varsChange, varsRead, varsCal, varsCalOps, varsCmds, varsPollErr, varsWire, varsTemp, varsWorkers, varsOpen>>


(***************************************************************************)
(* UPSState (ups_state.py).  The fields the model follows, in the order    *)
(* of the dataclass, which is the order snapshot() copies them in.         *)
(***************************************************************************)
FieldOrder == <<"connected", "port", "smart_mode", "last_error",
                "battery_capacity", "battery_voltage",
                "temperature", "battery_history", "temperature_history",
                "temperature_alert_active", "last_update">>
Fields == {FieldOrder[i] : i \in 1..Len(FieldOrder)}
HistoryFields == {"battery_history", "temperature_history"}
\* the fields that change through update() only
UpdateFields == Fields \ HistoryFields

ObjIds == 1..MaxObjs
StateThreads == {"w", "hp"}
NoStamp == [by |-> "none", n |-> 0]

\* temperature_alert_threshold: float = 40.0
TemperatureAlertThreshold == 40

\* UPSState(): the defaults of the dataclass; the two history fields refer
\* to two fresh empty lists
StateDefaults ==
    [f \in Fields |->
        CASE f \in {"connected", "smart_mode", "temperature_alert_active"} -> FALSE
          [] f \in {"port", "last_error"} -> ""
          [] f \in {"battery_capacity", "battery_voltage", "temperature"} -> 0
          [] f = "battery_history" -> 1
          [] f = "temperature_history" -> 2
          [] OTHER -> NoStamp]

Restrict(r, F) == [f \in F |-> r[f]]

InitState ==
    /\ st = StateDefaults
    /\ st_lock = "none"
    /\ heap = [i \in ObjIds |-> <<>>]
    /\ spc = [t \in StateThreads \cup {"r"} |->
                 CASE t = "w" -> "w_idle" [] t = "hp" -> "p_idle"
                   [] OTHER -> "r_idle"]
    /\ kw = [t \in StateThreads |-> <<>>]
    /\ cont = [t \in StateThreads |-> "none"]
    /\ calls = [t \in StateThreads |-> 0]
    /\ snap = <<>>
    /\ committed = Restrict(StateDefaults, UpdateFields)
    /\ snap_base = <<>>
    /\ snap_seen = <<>>

\* no count_edits_needed call is in progress
InitEdits ==
    /\ e_setting = "none"
    /\ e_current = ""
    /\ e_target = ""
    /\ e_result = 0
    /\ e_pc = "idle"

(***************************************************************************)
(* UPSState.update(kwargs)                                                 *)
(***************************************************************************)
SGoto(t, where) == spc' = [spc EXCEPT ![t] = where]

\* a thread calls self.state.update(kwargs) and goes on at 'after'
BeginUpdate(t, kwargs, after) ==
    /\ kw' = [kw EXCEPT ![t] = kwargs]
    /\ cont' = [cont EXCEPT ![t] = after]
    /\ calls' = [calls EXCEPT ![t] = 1 - calls[t]]
    /\ SGoto(t, "u_acq")

\* a with block that never waits
StateLockIgnored == TRUE
\* with self._lock:  (the lock is a threading.Lock: free, or the call blocks)
StateLockFree == st_lock = "none"

UpdateAcquire(t) ==
    /\ spc[t] = "u_acq"
    /\ StateLockFree
    /\ st_lock' = t
    /\ SGoto(t, "u_set")
    /\ UNCHANGED <<st, heap, kw, cont, calls, snap, committed, snap_base,
                   snap_seen, varsNotState>>

\* for key, value in kwargs.items(): setattr(self, key, value)
UpdateSetAttr(t) ==
    /\ spc[t] = "u_set"
    /\ kw[t] # <<>>
    /\ st' = [st EXCEPT ![Head(kw[t])[1]] = Head(kw[t])[2]]
    /\ kw' = [kw EXCEPT ![t] = Tail(kw[t])]
    /\ UNCHANGED <<st_lock, heap, spc, cont, calls, snap, committed,
                   snap_base, snap_seen, varsNotState>>

\* datetime.now(), read by update call number calls[t] of thread t
Now(t) == [by |-> t, n |-> calls[t]]

\* self.last_update = datetime.now()
UpdateStamp(t) ==
    /\ spc[t] = "u_set"
    /\ kw[t] = <<>>
    /\ st' = [st EXCEPT !["last_update"] = Now(t)]
    /\ SGoto(t, "u_rel")
    /\ UNCHANGED <<st_lock, heap, kw, cont, calls, snap, committed,
                   snap_base, snap_seen, varsNotState>>

\* the end of the with block; update() returns
UpdateRelease(t) ==
    /\ spc[t] = "u_rel"
    /\ st_lock' = "none"
    /\ committed' = Restrict(st, UpdateFields)
    /\ SGoto(t, cont[t])
    /\ cont' = [cont EXCEPT ![t] = "none"]
    /\ UNCHANGED <<st, heap, kw, calls, snap, snap_base, snap_seen,
                   varsNotState>>

(***************************************************************************)
(* The update() calls of the connection lifecycle (UPSManager.connect,     *)
(* disconnect), made by thread "w".                                        *)
(***************************************************************************)
LifecycleUpdates ==
    { \* connect: state.update(connected=True, port=port, smart_mode=True, last_error="")
      << <<"connected", TRUE>>, <<"port", "COM3">>, <<"smart_mode", TRUE>>,
         <<"last_error", "">> >>,
      \* connect: state.update(connected=False, last_error="Failed to enter Smart Mode")
      << <<"connected", FALSE>>, <<"last_error", "Failed to enter Smart Mode">> >>,
      \* disconnect: state.update(connected=False, smart_mode=False)
      << <<"connected", FALSE>>, <<"smart_mode", FALSE>> >> }

LifecycleUpdate ==
    /\ spc["w"] = "w_idle"
    /\ \E kwargs \in LifecycleUpdates : BeginUpdate("w", kwargs, "w_idle")
    /\ UNCHANGED <<st, st_lock, heap, snap, committed, snap_base,
                   snap_seen, varsNotState>>


(***************************************************************************)
(* The poll worker's writes to the state: the responses of "f", "B" and    *)
(* "C" go through _read_and_update into update(); the history buffers are  *)
(* appended and trimmed by _record_battery_history and _check_temperature. *)
(* List objects live in heap; a field holding a list holds its id.         *)
(***************************************************************************)
LastSample(l) == IF l = <<>> THEN 0 ELSE l[Len(l)]

\* the list objects something still refers to
Refs(s, sn) ==
    {s[f] : f \in HistoryFields} \cup {sn[f] : f \in HistoryFields \cap DOMAIN sn}

\* list objects nothing refers to are gone
Collect(h, refs) == [i \in ObjIds |-> IF i \in refs THEN h[i] ELSE <<>>]

NewObj(refs) == CHOOSE i \in ObjIds \ refs : \A j \in ObjIds \ refs : i <= j

\* history[-cap:]
LastN(l, cap) == IF Len(l) <= cap THEN l ELSE SubSeq(l, Len(l) - cap + 1, Len(l))

\* a numeric response to cmd_char: update(state_key = value); no response,
\* or one that is not a number: no update
ReadAndUpdate(key, values, after) ==
    \/ /\ \E v \in values : BeginUpdate("hp", << <<key, v>> >>, after)
       /\ UNCHANGED <<st, st_lock, heap, snap, committed, snap_base, snap_seen,
                      varsNotState>>
    \/ /\ SGoto("hp", after)
       /\ UNCHANGED <<st, st_lock, heap, kw, cont, calls, snap, committed,
                      snap_base, snap_seen, varsNotState>>

\* the fast loop reaches "f"
PollCapacity ==
    /\ spc["hp"] = "p_idle"
    /\ LastSample(heap[st["battery_history"]]) < MaxSamples
    /\ ReadAndUpdate("battery_capacity", {100}, "p_volt")

\* the fast loop reaches "B"
PollVoltage ==
    /\ spc["hp"] = "p_volt"
    /\ ReadAndUpdate("battery_voltage", {27}, "rec_read")

\* voltage = ...; capacity = ...; if voltage <= 0 and capacity <= 0: return
RecordRead ==
    /\ spc["hp"] = "rec_read"
    /\ IF st["battery_voltage"] <= 0 /\ st["battery_capacity"] <= 0
       THEN SGoto("hp", "p_slow")
       ELSE SGoto("hp", "rec_append")
    /\ UNCHANGED <<st, st_lock, heap, kw, cont, calls, snap, committed,
                   snap_base, snap_seen, varsNotState>>

\* history.append(sample): the list the field refers to grows in place
HistoryAppend(f) ==
    heap' = [heap EXCEPT ![st[f]] = Append(@, LastSample(@) + 1)]

\* if len(history) > cap: self.state.<f> = history[-cap:]
HistoryTrim(f, cap) ==
    IF Len(heap[st[f]]) > cap
    THEN LET o == NewObj(Refs(st, snap))
             s2 == [st EXCEPT ![f] = o]
         IN  /\ st' = s2
             /\ heap' = Collect([heap EXCEPT ![o] = LastN(heap[st[f]], cap)],
                                Refs(s2, snap))
    ELSE UNCHANGED <<st, heap>>

RecordAppend ==
    /\ spc["hp"] = "rec_append"
    /\ HistoryAppend("battery_history")
    /\ SGoto("hp", "rec_trim")
    /\ UNCHANGED <<st, st_lock, kw, cont, calls, snap, committed, snap_base,
                   snap_seen, varsNotState>>

RecordTrim ==
    /\ spc["hp"] = "rec_trim"
    /\ HistoryTrim("battery_history", BatteryHistoryCap)
    /\ SGoto("hp", "p_slow")
    /\ UNCHANGED <<st_lock, kw, cont, calls, snap, committed, snap_base,
                   snap_seen, varsNotState>>

\* slow_counter += 1; if slow_counter >= 5: the slow loop runs, else the
\* cycle ends
SlowCycle(isSlow) ==
    /\ spc["hp"] = "p_slow"
    /\ IF isSlow
       THEN /\ LastSample(heap[st["temperature_history"]]) < MaxSamples
            /\ SGoto("hp", "p_temp")
       ELSE SGoto("hp", "p_idle")
    /\ UNCHANGED <<st, st_lock, heap, kw, cont, calls, snap, committed,
                   snap_base, snap_seen, varsNotState>>

\* the slow loop reaches "C"
PollTemperature ==
    /\ spc["hp"] = "p_temp"
    /\ ReadAndUpdate("temperature", {25, 45}, "tmp_read")

\* temp = self.state.temperature; if temp <= 0: return
TempRead ==
    /\ spc["hp"] = "tmp_read"
    /\ IF st["temperature"] <= 0
       THEN SGoto("hp", "p_idle")
       ELSE SGoto("hp", "tmp_append")
    /\ UNCHANGED <<st, st_lock, heap, kw, cont, calls, snap, committed,
                   snap_base, snap_seen, varsNotState>>

TempAppend ==
    /\ spc["hp"] = "tmp_append"
    /\ HistoryAppend("temperature_history")
    /\ SGoto("hp", "tmp_trim")
    /\ UNCHANGED <<st, st_lock, kw, cont, calls, snap, committed, snap_base,
                   snap_seen, varsNotState>>

TempTrim ==
    /\ spc["hp"] = "tmp_trim"
    /\ HistoryTrim("temperature_history", TemperatureHistoryCap)
    /\ SGoto("hp", "tmp_alert")
    /\ UNCHANGED <<st_lock, kw, cont, calls, snap, committed, snap_base,
                   snap_seen, varsNotState>>

\* is_over = temp >= threshold; the alert flag changes on the edges only
TempAlert ==
    /\ spc["hp"] = "tmp_alert"
    /\ LET is_over == st["temperature"] >= TemperatureAlertThreshold
           was_active == st["temperature_alert_active"]
       IN  IF is_over # was_active
           THEN /\ BeginUpdate("hp", << <<"temperature_alert_active", is_over>> >>,
                               "p_idle")
                /\ UNCHANGED <<st, st_lock, heap, snap, committed, snap_base,
                               snap_seen, varsNotState>>
           ELSE /\ SGoto("hp", "p_idle")
                /\ UNCHANGED <<st, st_lock, heap, kw, cont, calls, snap,
                               committed, snap_base, snap_seen, varsNotState>>

(***************************************************************************)
(* UPSState.snapshot(), called by the reader "r" (the UI refresh).         *)
(***************************************************************************)
SnapshotAcquire ==
    /\ spc["r"] = "r_idle"
    /\ StateLockFree
    /\ st_lock' = "r"
    /\ snap_base' = committed
    /\ SGoto("r", "r_copy")
    /\ UNCHANGED <<st, heap, kw, cont, calls, snap, committed, snap_seen,
                   varsNotState>>

\* {k: v for k, v in self.__dict__.items()}: one field per step, a list
\* field copied as the reference it is
SnapshotCopy ==
    /\ spc["r"] = "r_copy"
    /\ Cardinality(DOMAIN snap) < Len(FieldOrder)
    /\ LET f == FieldOrder[Cardinality(DOMAIN snap) + 1]
       IN  snap' = (f :> st[f]) @@ snap
    /\ UNCHANGED <<st, st_lock, heap, spc, kw, cont, calls, committed,
                   snap_base, snap_seen, varsNotState>>

\* what the reader finds in the lists of its snapshot
Contents(sn) == [f \in HistoryFields |-> heap[sn[f]]]

\* the lock is released and the dict returned
SnapshotReturn ==
    /\ spc["r"] = "r_copy"
    /\ Cardinality(DOMAIN snap) = Len(FieldOrder)
    /\ st_lock' = "none"
    /\ snap_seen' = Contents(snap)
    /\ SGoto("r", "r_hold")
    /\ UNCHANGED <<st, heap, kw, cont, calls, snap, committed, snap_base,
                   varsNotState>>

\* the reader is done with the dict
SnapshotDrop ==
    /\ spc["r"] = "r_hold"
    /\ snap' = <<>>
    /\ snap_base' = <<>>
    /\ snap_seen' = <<>>
    /\ heap' = Collect(heap, Refs(st, <<>>))
    /\ SGoto("r", "r_idle")
    /\ UNCHANGED <<st, st_lock, kw, cont, calls, committed, varsNotState>>

UpdateSteps ==
    \E t \in StateThreads :
       UpdateAcquire(t) \/ UpdateSetAttr(t) \/ UpdateStamp(t) \/ UpdateRelease(t)

SnapshotSteps ==
    SnapshotAcquire \/ SnapshotCopy \/ SnapshotReturn \/ SnapshotDrop

\* the lifecycle writer against the reader
StateNext == UpdateSteps \/ LifecycleUpdate \/ SnapshotSteps

\* the poll worker against the reader
HistoryNext ==
    \/ UpdateSteps
    \/ PollCapacity \/ PollVoltage \/ RecordRead \/ RecordAppend \/ RecordTrim
    \/ \E isSlow \in BOOLEAN : SlowCycle(isSlow)
    \/ PollTemperature \/ TempRead \/ TempAppend \/ TempTrim \/ TempAlert
    \/ SnapshotSteps

(***************************************************************************)
(* editable_settings.py: the table of settings and count_edits_needed.     *)
(***************************************************************************)
Cyc(cmd, values) == [cmd_char |-> cmd, allowed_values |-> values, direct_edit |-> FALSE]
Direct(cmd) == [cmd_char |-> cmd, allowed_values |-> <<>>, direct_edit |-> TRUE]

SETTINGS ==
    [self_test_interval |-> Cyc("E", <<"336", "168", "ON ", "OFF">>),
     alarm_control |-> Cyc("k", <<"0", "T", "L", "N">>),
     ups_id |-> Direct("c"),
     battery_replace_date |-> Direct("x"),
     low_battery_warning |-> Cyc("q", <<"02", "05", "07", "10">>),
     shutdown_delay |-> Cyc("p", <<"020", "180", "300", "600">>),
     turn_on_delay |-> Cyc("r", <<"000", "060", "180", "300">>),
     min_battery_restart |-> Cyc("e", <<"00", "15", "50", "90">>),
     sensitivity |-> Cyc("s", <<"H", "M", "L", "L">>),
     upper_transfer_voltage |-> Cyc("u", <<"253", "264", "271", "280">>),
     lower_transfer_voltage |-> Cyc("l", <<"196", "188", "208", "204">>),
     output_voltage_setting |-> Cyc("o", <<"225", "230", "240", "220">>),
     battery_packs |-> Cyc(">", <<"000", "001", "002", "003", "004", "005",
                                  "006", "007", "008", "009", "010", "011",
                                  "012", "013", "014", "015", "016">>)]

SettingNames == DOMAIN SETTINGS

Range(seq) == {seq[i] : i \in 1..Len(seq)}

\* values.index(x): the 0-based position of the first occurrence
Index(values, x) ==
    (CHOOSE i \in 1..Len(values) :
        values[i] = x /\ \A j \in 1..(i - 1) : values[j] # x) - 1

\* return None
NotFound == -1

\* for steps in range(1, n + 1): idx = (current_idx + steps) % n; ...
RECURSIVE ScanForward(_, _, _, _)
ScanForward(values, current_idx, target, k) ==
    IF k > Len(values) THEN NotFound
    ELSE IF values[((current_idx + k) % Len(values)) + 1] = target THEN k
    ELSE ScanForward(values, current_idx, target, k + 1)

\* a variant that answers 0 when the setting already has the target value
count_edits_in_place(setting, current, target) ==
    LET values == SETTINGS[setting].allowed_values
        current_idx == IF current \in Range(values) THEN Index(values, current) ELSE 0
    IN  IF values = <<>> \/ target \notin Range(values) THEN NotFound
        ELSE IF current = target THEN 0
        ELSE ScanForward(values, current_idx, target, 1)
count_edits_needed(setting, current, target) ==
    LET values == SETTINGS[setting].allowed_values
        current_idx == IF current \in Range(values) THEN Index(values, current) ELSE 0
    IN  IF values = <<>> THEN NotFound
        ELSE IF target \notin Range(values) THEN NotFound
        ELSE ScanForward(values, current_idx, target, 1)

\* a value no cycle holds
Unknown == "?"

\* every setting with every pair drawn from its cycle and a value outside it
InitEditsInputs ==
    /\ e_setting \in SettingNames
    /\ e_current \in Range(SETTINGS[e_setting].allowed_values) \cup {Unknown}
    /\ e_target \in Range(SETTINGS[e_setting].allowed_values) \cup {Unknown}
    /\ e_result = 0
    /\ e_pc = "call"

CountEdits ==
    /\ e_pc = "call"
    /\ e_result' = count_edits_needed(e_setting, e_current, e_target)
    /\ e_pc' = "done"
    /\ UNCHANGED <<e_setting, e_current, e_target, varsNotEdits>>

(***************************************************************************)
(* _execute_battery_packs_change: the choice of direction and step count.  *)
(***************************************************************************)
\* if target < 0 or target > 255
MaxPacks == 255
\* (current - target) % 256
PacksModulus == 256

\* no plan is being made
InitPacks ==
    /\ k_current = 0
    /\ k_target = 0
    /\ k_direction = "none"
    /\ k_steps = 0
    /\ k_pc = "idle"

\* every device value against every accepted target
InitPacksInputs ==
    /\ k_current \in 0..MaxPacks
    /\ k_target \in 0..MaxPacks
    /\ k_direction = "none"
    /\ k_steps = 0
    /\ k_pc = "plan"

\* a variant that decrements on a tie
PacksPlanStrict(current, target) ==
    LET dec_steps == (current - target) % PacksModulus
        inc_steps == (target - current) % PacksModulus
    IN  IF inc_steps < dec_steps
        THEN [direction |-> "+", steps |-> inc_steps]
        ELSE [direction |-> "-", steps |-> dec_steps]
\* dec_steps / inc_steps; if inc_steps <= dec_steps: '+' else '-'
PacksPlan(current, target) ==
    LET dec_steps == (current - target) % PacksModulus
        inc_steps == (target - current) % PacksModulus
    IN  IF inc_steps <= dec_steps
        THEN [direction |-> "+", steps |-> inc_steps]
        ELSE [direction |-> "-", steps |-> dec_steps]

\* if current == target: return "Already set"; else the plan is made
PlanPacks ==
    /\ k_pc = "plan"
    /\ IF k_current = k_target
       THEN /\ k_pc' = "already"
            /\ UNCHANGED <<k_direction, k_steps>>
       ELSE /\ k_direction' = PacksPlan(k_current, k_target).direction
            /\ k_steps' = PacksPlan(k_current, k_target).steps
            /\ k_pc' = "planned"
    /\ UNCHANGED <<k_current, k_target, varsNotPacks>>

(***************************************************************************)
(* Text conversions.                                                       *)
(***************************************************************************)
RECURSIVE LStrip(_)
LStrip(s) == IF s # "" /\ Head(s) = " " THEN LStrip(Tail(s)) ELSE s

RECURSIVE RStrip(_)
RStrip(s) ==
    IF s # "" /\ SubSeq(s, Len(s), Len(s)) = " "
    THEN RStrip(SubSeq(s, 1, Len(s) - 1))
    ELSE s

\* str.strip()
Strip(s) == RStrip(LStrip(s))

\* f"{n:03d}"
Pad3(n) ==
    IF n < 10 THEN "00" \o ToString(n)
    ELSE IF n < 100 THEN "0" \o ToString(n)
    ELSE ToString(n)

\* a read that ended without a response: None
NoResponse == "(timeout)"

\* _read_response_locked on a complete line: the text without its
\* terminator, stripped; None when nothing is left
ReadLine(text) == IF Strip(text) = "" THEN NoResponse ELSE Strip(text)

(***************************************************************************)
(* The device, as tests/mock_ups.py simulates it, for the one setting a    *)
(* behaviour is about.                                                     *)
(***************************************************************************)
\* DEFAULT_RESPONSES of the customizing commands
DEFAULT_RESPONSES ==
    [self_test_interval |-> "336", alarm_control |-> "0", ups_id |-> "UPS_IDEN",
     battery_replace_date |-> "09/25/11", low_battery_warning |-> "02",
     shutdown_delay |-> "180", turn_on_delay |-> "000",
     min_battery_restart |-> "15", sensitivity |-> "H",
     upper_transfer_voltage |-> "253", lower_transfer_voltage |-> "196",
     output_voltage_setting |-> "230", battery_packs |-> "000"]

\* the cycle of a device with the low-battery-warning values of the test
\* test_cycle_until_found_sua_values
SuaLowBatteryCycle == <<"08", "11", "14", "17">>

\* EDIT_CYCLES[cmd]: the catalogued cycle; battery packs and the direct-edit
\* commands have none
DeviceCycles(s) ==
    IF s \notin SettingNames \/ s = "battery_packs" THEN {<<>>}
    ELSE IF s = "low_battery_warning"
         THEN {SETTINGS[s].allowed_values, SuaLowBatteryCycle}
         ELSE {SETTINGS[s].allowed_values}

\* _responses[cmd]
DeviceValue ==
    IF c_setting = "battery_packs" THEN Pad3(d_slot)
    ELSE IF d_cycle = <<>> THEN d_text
    ELSE d_cycle[d_slot + 1]

\* _handle_edit('-'): the next value of the cycle; for battery packs '-'
\* decrements the raw byte
DeviceAdvance ==
    IF c_setting = "battery_packs" THEN (d_slot - 1) % PacksModulus
    ELSE (d_slot + 1) % Len(d_cycle)

(***************************************************************************)
(* change_setting / _execute_setting_change, one caller against the        *)
(* device.  The command mutex and the pause gate around the body are       *)
(* followed in the orchestrator part; here the caller runs alone.          *)
(***************************************************************************)
NoResult == [ok |-> FALSE, msg |-> "", step |-> 0, of |-> 0]
Result(ok, msg) == [ok |-> ok, msg |-> msg, step |-> 0, of |-> 0]
\* a message that names step n of t
ResultAt(msg, n, t) == [ok |-> FALSE, msg |-> msg, step |-> n, of |-> t]

\* the state field named by setting.state_key, as UPSState() creates it
FieldDefault(s) == IF s = "battery_packs" THEN "000" ELSE ""

\* no change_setting has been called
InitChange ==
    /\ c_setting = "none"
    /\ c_calls = 0
    /\ d_cycle = <<>>
    /\ d_slot = 0
    /\ d_text = ""
    /\ c_pc = "idle"
    /\ c_target = ""
    /\ c_old = ""
    /\ c_steps = 0
    /\ c_i = 0
    /\ c_resp = ""
    /\ c_verify = ""
    /\ c_sent = <<>>
    /\ c_result = NoResult
    /\ c_field = ""
    /\ c_field0 = ""
    /\ c_faulted = FALSE

\* a setting key the catalogue does not hold
UnknownSetting == "no_such_setting"

\* one setting (or an unknown key) and a device holding a value of its cycle
InitChangeInputs ==
    /\ c_setting \in SettingNames \cup {UnknownSetting}
    /\ c_calls = 0
    /\ d_cycle \in DeviceCycles(c_setting)
    /\ d_slot \in IF d_cycle = <<>> THEN {0}
                  ELSE {Index(d_cycle, v) : v \in Range(d_cycle)}
    /\ d_text = IF c_setting \in SettingNames /\ SETTINGS[c_setting].direct_edit
                THEN DEFAULT_RESPONSES[c_setting] ELSE ""
    /\ c_pc = "idle"
    /\ c_target = ""
    /\ c_old = ""
    /\ c_steps = 0
    /\ c_i = 0
    /\ c_resp = ""
    /\ c_verify = ""
    /\ c_sent = <<>>
    /\ c_result = NoResult
    /\ c_field = FieldDefault(c_setting)
    /\ c_field0 = FieldDefault(c_setting)
    /\ c_faulted = FALSE

\* the target values a caller asks for
Targets ==
    IF c_setting \notin SettingNames THEN {"ZZ"}
    ELSE IF SETTINGS[c_setting].direct_edit THEN {"UPS_0002"}
    ELSE Range(SETTINGS[c_setting].allowed_values) \cup Range(d_cycle) \cup {"ZZ"}

Cmd == SETTINGS[c_setting].cmd_char

\* the operation returns result r
ChangeReturns(r) == c_result' = r /\ c_pc' = "ret"

\* change_setting(setting_key, target_value): setting = SETTINGS.get(...)
ChangeCall ==
    /\ c_pc = "idle"
    /\ c_calls < MaxCalls
    /\ c_calls' = c_calls + 1
    /\ \E target \in Targets : c_target' = target
    /\ c_sent' = <<>>
    /\ c_field0' = c_field
    /\ c_faulted' = FALSE
    /\ c_old' = "" /\ c_steps' = 0 /\ c_i' = 0 /\ c_resp' = "" /\ c_verify' = ""
    /\ IF c_setting \notin SettingNames
       THEN ChangeReturns(Result(FALSE, "Unknown setting"))
       ELSE c_result' = NoResult /\ c_pc' = "dispatch"
    /\ UNCHANGED <<c_setting, d_cycle, d_slot, d_text, c_field, varsNotChange>>

\* _execute_setting_change: if setting.direct_edit: if cmd == ">": the
\* battery-pack path, else direct character input; else the edit cycle
Dispatch ==
    /\ c_pc = "dispatch"
    /\ c_pc' = IF SETTINGS[c_setting].direct_edit
               THEN IF Cmd = ">" THEN "packs" ELSE "direct"
               ELSE "read"
    /\ UNCHANGED <<c_setting, c_calls, d_cycle, d_slot, d_text, c_target, c_old, c_steps,
                   c_i, c_resp, c_verify, c_sent, c_result, c_field, c_field0,
                   c_faulted, varsNotChange>>

\* send_direct_edit: cmd, then '-'; the device echoes the value and waits for
\* the characters, or refuses with NO or NA
DirectEditEnter ==
    /\ c_pc = "direct"
    /\ c_sent' = c_sent \o <<Cmd, "-">>
    /\ \E r \in {DeviceValue, "NO", "NA"} :
          /\ c_resp' = ReadLine(r)
          /\ c_faulted' = (c_faulted \/ r \in {"NO", "NA"})
          /\ IF r = "NO"
             THEN ChangeReturns(Result(FALSE, "Edit disallowed by UPS"))
             ELSE IF r = "NA"
                  THEN ChangeReturns(Result(FALSE, "UPS responded"))
                  ELSE c_pc' = "type" /\ UNCHANGED c_result
    /\ UNCHANGED <<c_setting, c_calls, d_cycle, d_slot, d_text, c_target, c_old, c_steps,
                   c_i, c_verify, c_field, c_field0, varsNotChange>>

\* ... each character of the text is written; the device stores the text
\* and answers OK, or the answer does not arrive
DirectEditType ==
    /\ c_pc = "type"
    /\ c_sent' = Append(c_sent, c_target)
    /\ d_text' = c_target
    /\ \E lost \in BOOLEAN :
          /\ c_resp' = IF lost THEN NoResponse ELSE ReadLine("OK")
          /\ c_faulted' = (c_faulted \/ lost)
          /\ IF lost
             THEN ChangeReturns(Result(FALSE, "UPS responded")) /\ UNCHANGED c_field
             ELSE ChangeReturns(Result(TRUE, "OK")) /\ c_field' = c_target
    /\ UNCHANGED <<c_setting, c_calls, d_cycle, d_slot, c_target, c_old, c_steps, c_i,
                   c_verify, c_field0, varsNotChange>>

\* current = self._protocol.send_command(cmd); None: failure;
\* old_value = current.strip()
ReadCurrent ==
    /\ c_pc = "read"
    /\ c_sent' = Append(c_sent, Cmd)
    /\ \E lost \in BOOLEAN :
          /\ c_faulted' = (c_faulted \/ lost)
          /\ IF lost
             THEN /\ ChangeReturns(Result(FALSE, "Failed to read current value"))
                  /\ UNCHANGED c_old
             ELSE /\ c_old' = Strip(ReadLine(DeviceValue))
                  /\ c_pc' = "plan"
                  /\ UNCHANGED c_result
    /\ UNCHANGED <<c_setting, c_calls, d_cycle, d_slot, d_text, c_target, c_steps, c_i,
                   c_resp, c_verify, c_field, c_field0, varsNotChange>>

\* if old_value == target_value: "Already set"; steps = count_edits_needed;
\* if steps is None: "not valid"; the loop over range(steps) begins
PlanEdits ==
    /\ c_pc = "plan"
    /\ LET n == count_edits_needed(c_setting, c_old, c_target)
       IN  IF c_old = c_target
           THEN /\ ChangeReturns(Result(TRUE, "Already set to target value"))
                /\ UNCHANGED <<c_steps, c_i>>
           ELSE IF n = NotFound
           THEN /\ ChangeReturns(Result(FALSE, "not valid for"))
                /\ UNCHANGED <<c_steps, c_i>>
           ELSE /\ c_steps' = n
                /\ c_i' = 0
                /\ c_pc' = "edit"
                /\ UNCHANGED c_result
    /\ UNCHANGED <<c_setting, c_calls, d_cycle, d_slot, d_text, c_target, c_old, c_resp,
                   c_verify, c_sent, c_field, c_field0, c_faulted, varsNotChange>>

\* a variant that takes every edit response for an accepted edit
EditVerdictLenient(resp, n, t) == NoResult
\* the loop body after send_setting_edit, at step n of t: the failure the
\* edit response leads to, or NoResult when the loop goes on
EditVerdict(resp, n, t) ==
    IF resp = NoResponse THEN ResultAt("Edit step failed - no response", n, t)
    ELSE IF Strip(resp) = "NA" THEN ResultAt("Edit rejected by UPS (NA) at step", n, t)
    ELSE IF Strip(resp) = "NO" THEN Result(FALSE, "Edit disallowed - check DIP switch positions")
    ELSE NoResult

\* what the device does with the '-' of an edit step: it advances and answers
\* with the new value; it advances and the answer is lost; it refuses with NA
\* or NO; it does not answer
EditOutcomes == {"advance", "lost", "NA", "NO", "dead"}

\* one pass of the loop: send_setting_edit(cmd) writes cmd, reads the value,
\* writes '-', reads the edit response; then the response is judged
EditStep(outcome) ==
    /\ c_pc = "edit"
    /\ c_sent' = c_sent \o <<Cmd, "-">>
    /\ d_slot' = IF outcome \in {"advance", "lost"} THEN DeviceAdvance ELSE d_slot
    /\ c_faulted' = (c_faulted \/ outcome # "advance")
    /\ LET resp == CASE outcome = "advance" ->
                          ReadLine(IF c_setting = "battery_packs"
                                   THEN Pad3(DeviceAdvance)
                                   ELSE d_cycle[DeviceAdvance + 1])
                     [] outcome \in {"NA", "NO"} -> ReadLine(outcome)
                     [] OTHER -> NoResponse
           verdict == EditVerdict(resp, c_i + 1, c_steps)
       IN  /\ c_resp' = resp
           /\ IF verdict # NoResult
              THEN ChangeReturns(verdict) /\ UNCHANGED c_i
              ELSE /\ c_i' = c_i + 1
                   /\ c_pc' = IF c_i + 1 = c_steps THEN "verify" ELSE "edit"
                   /\ UNCHANGED c_result
    /\ UNCHANGED <<c_setting, c_calls, d_cycle, d_text, c_target, c_old, c_steps,
                   c_verify, c_field, c_field0, varsNotChange>>

\* a variant that records the target whatever was read back
VerifyTrusting(verify, target) ==
    IF verify # NoResponse /\ Strip(verify) = target
    THEN [result |-> Result(TRUE, "OK"), set |-> TRUE, value |-> target]
    ELSE [result |-> Result(FALSE, "Verification failed"), set |-> TRUE, value |-> target]
\* if verify and verify.strip() == target_value: update the field with the
\* target, success; else update it with verify.strip() if there is one, failure
VerifyOutcome(verify, target) ==
    IF verify # NoResponse /\ Strip(verify) = target
    THEN [result |-> Result(TRUE, "OK"), set |-> TRUE, value |-> target]
    ELSE [result |-> Result(FALSE, "Verification failed"),
          set |-> verify # NoResponse,
          value |-> Strip(verify)]

\* verify = self._protocol.send_command(cmd)
VerifyRead ==
    /\ c_pc = "verify"
    /\ c_sent' = Append(c_sent, Cmd)
    /\ \E lost \in BOOLEAN :
          LET verify == IF lost THEN NoResponse ELSE ReadLine(DeviceValue)
              out == VerifyOutcome(verify, c_target)
          IN  /\ c_verify' = verify
              /\ c_faulted' = (c_faulted \/ lost)
              /\ c_field' = IF out.set THEN out.value ELSE c_field
              /\ ChangeReturns(out.result)
    /\ UNCHANGED <<c_setting, c_calls, d_cycle, d_slot, d_text, c_target, c_old, c_steps,
                   c_i, c_resp, c_field0, varsNotChange>>

\* the caller has its result; the locals of the call are gone
ChangeDone ==
    /\ c_pc = "ret"
    /\ c_pc' = "idle"
    /\ c_target' = "" /\ c_old' = "" /\ c_steps' = 0 /\ c_i' = 0
    /\ c_resp' = "" /\ c_verify' = "" /\ c_sent' = <<>>
    /\ c_result' = NoResult
    /\ c_field0' = c_field
    /\ c_faulted' = FALSE
    /\ UNCHANGED <<c_setting, c_calls, d_cycle, d_slot, d_text, c_field,
                   varsNotChange>>

ChangeNext ==
    \/ ChangeCall \/ Dispatch \/ DirectEditEnter \/ DirectEditType
    \/ ReadCurrent \/ PlanEdits
    \/ \E outcome \in EditOutcomes : EditStep(outcome)
    \/ VerifyRead \/ ChangeDone

(***************************************************************************)
(* UPSProtocol._read_response_locked, byte by byte.  A byte is one         *)
(* character; "CR" and "LF" stand for the two bytes of                     *)
(* RESPONSE_TERMINATOR.  r_stream is what the device has sent and the      *)
(* reader has not consumed; the read of one byte times out when the byte   *)
(* has not arrived in time.                                                *)
(***************************************************************************)
ALERT_CHARS == {"!", "$", "%", "+", "?", "=", "*", "#", "&", "|"}

RESPONSE_TERMINATOR == <<"CR", "LF">>

\* the bytes the device sends in this model: text, blank, alerts, CR, LF
StreamBytes == {"O", "K", " ", "!", "+", "CR", "LF"}

\* what str.strip() removes
Whitespace == {" ", "CR", "LF"}

RECURSIVE LStripBytes(_)
LStripBytes(b) == IF b # <<>> /\ Head(b) \in Whitespace THEN LStripBytes(Tail(b)) ELSE b

RECURSIVE RStripBytes(_)
RStripBytes(b) ==
    IF b # <<>> /\ b[Len(b)] \in Whitespace
    THEN RStripBytes(SubSeq(b, 1, Len(b) - 1))
    ELSE b

StripBytes(b) == RStripBytes(LStripBytes(b))

\* the return value: None, or a string
None == [some |-> FALSE, text |-> <<>>]
Some(text) == [some |-> TRUE, text |-> text]

\* a reader that filters alert characters only before the first text byte
IsAlertAtStart(char, buf) == char \in ALERT_CHARS /\ Len(buf) = 0

\* if char in ALERT_CHARS and len(buf) == 0: ... elif char in ALERT_CHARS: ...
IsAlert(char, buf) ==
    \/ char \in ALERT_CHARS /\ Len(buf) = 0
    \/ char \in ALERT_CHARS

\* buf.endswith(terminator)
EndsWithTerminator(buf) ==
    /\ Len(buf) >= Len(RESPONSE_TERMINATOR)
    /\ SubSeq(buf, Len(buf) - 1, Len(buf)) = RESPONSE_TERMINATOR

\* result = buf[:-len(terminator)].decode(); return result.strip() if result else None
TerminatorResult(buf) ==
    LET result == SubSeq(buf, 1, Len(buf) - Len(RESPONSE_TERMINATOR))
    IN  IF result # <<>> THEN Some(StripBytes(result)) ELSE None

\* a reader that drops what it has read when the line falls silent
TimeoutDrops(buf) == None

\* if buf: result = buf.decode().strip(); return result if result else None
\* return None
TimeoutResult(buf) ==
    IF buf # <<>>
    THEN LET result == StripBytes(buf)
         IN  IF result # <<>> THEN Some(result) ELSE None
    ELSE None

\* no read is under way and the line is silent
InitRead ==
    /\ r_stream = <<>>
    /\ r_buf = <<>>
    /\ r_alerts = <<>>
    /\ r_seen = <<>>
    /\ r_pc = "returned"
    /\ r_how = ""
    /\ r_result = None

\* no read is under way and the line carries any bytes at all
InitReadInputs ==
    /\ r_stream \in UNION {[1..n -> StreamBytes] : n \in 0..MaxStream}
    /\ r_buf = <<>>
    /\ r_alerts = <<>>
    /\ r_seen = <<>>
    /\ r_pc = "returned"
    /\ r_how = ""
    /\ r_result = None

\* one turn of the loop with a byte read: an alert character is dispatched
\* and dropped, any other byte is appended, and a buffer that now ends with
\* the terminator is returned
ReadByte ==
    /\ r_pc = "reading"
    /\ r_stream # <<>>
    /\ LET char == Head(r_stream)
       IN  /\ r_stream' = Tail(r_stream)
           /\ r_seen' = Append(r_seen, char)
           /\ IF IsAlert(char, r_buf)
              THEN /\ r_alerts' = Append(r_alerts, char)
                   /\ UNCHANGED <<r_buf, r_pc, r_how, r_result>>
              ELSE /\ r_buf' = Append(r_buf, char)
                   /\ UNCHANGED r_alerts
                   /\ IF EndsWithTerminator(r_buf')
                      THEN /\ r_pc' = "returned"
                           /\ r_how' = "terminator"
                           /\ r_result' = TerminatorResult(r_buf')
                      ELSE UNCHANGED <<r_pc, r_how, r_result>>
    /\ UNCHANGED varsNotRead

\* one turn of the loop with no byte in time: self._conn.read(1) is empty
ReadTimeout ==
    /\ r_pc = "reading"
    /\ r_pc' = "returned"
    /\ r_how' = "timeout"
    /\ r_result' = TimeoutResult(r_buf)
    /\ UNCHANGED <<r_stream, r_buf, r_alerts, r_seen, varsNotRead>>

\* a call: buf = bytearray()
ReadCall ==
    /\ r_pc = "returned"
    /\ r_pc' = "reading"
    /\ r_buf' = <<>>
    /\ r_alerts' = <<>>
    /\ r_seen' = <<>>
    /\ r_how' = ""
    /\ r_result' = None
    /\ UNCHANGED <<r_stream, varsNotRead>>

ReadNext == ReadCall \/ ReadByte \/ ReadTimeout

(***************************************************************************)
(* CalibrationManager (core/calibration.py).  Battery percentages are the  *)
(* device's one-decimal readings, held as integers in tenths of a percent; *)
(* the arithmetic is exact, float rounding is not modelled.                *)
(***************************************************************************)
CalibrationState == {"IDLE", "CHECKING", "RUNNING", "COMPLETED", "FAILED", "ABORTED"}

\* 100.0, in tenths of a percent
FullCharge == 1000

\* range_total = 75.0 (100% - 25%), in tenths of a percent
range_total == 750

\* the battery readings passed in: empty, around 25%, partly charged,
\* just below full, full, above full
BatteryPcts == {0, 249, 250, 251, 870, 999, 1000, 1001}

\* the messages start_calibration passes to fail()
FailMessages == {"Battery not at 100%", "Unexpected: None"}

\* f"{battery_pct}" of a float with one decimal
PctText(b) == ToString(b \div 10) \o "." \o ToString(b % 10)

Min(a, b) == IF a <= b THEN a ELSE b
Max(a, b) == IF a >= b THEN a ELSE b

\* __init__
InitCal ==
    /\ cal_state = "IDLE"
    /\ start_battery_pct = 0
    /\ current_battery_pct = 0
    /\ error_message = ""
    /\ cs_pct = 0
    /\ cs_result = <<FALSE, "">>
    /\ cal_last = "__init__"

\* a can_start that lets every IDLE machine start
can_start_when_idle(battery_pct) ==
    IF cal_state # "IDLE"
    THEN <<FALSE, "Calibration already in state: " \o cal_state>>
    ELSE <<TRUE, "">>

\* can_start(battery_pct) -> (can_start, reason_if_not)
can_start(battery_pct) ==
    IF cal_state # "IDLE"
    THEN <<FALSE, "Calibration already in state: " \o cal_state>>
    ELSE IF battery_pct < FullCharge
         THEN <<FALSE, "Battery must be at 100% to calibrate (currently "
                          \o PctText(battery_pct) \o "%)">>
         ELSE <<TRUE, "">>

\* a progress that is not clamped
progress_unclamped ==
    IF cal_state # "RUNNING"
    THEN [num |-> 0, den |-> range_total]
    ELSE [num |-> (start_battery_pct - current_battery_pct) * 100, den |-> range_total]

\* progress_pct, the fraction num/den of a percent:
\* min(100.0, max(0.0, (used / range_total) * 100.0)), 0.0 outside RUNNING
progress_pct ==
    IF cal_state # "RUNNING"
    THEN [num |-> 0, den |-> range_total]
    ELSE LET used == start_battery_pct - current_battery_pct
         IN  [num |-> Min(100 * range_total, Max(0, used * 100)), den |-> range_total]

\* is_active
is_active == cal_state \in {"CHECKING", "RUNNING"}

CanStart(battery_pct) ==
    /\ cs_pct' = battery_pct
    /\ cs_result' = can_start(battery_pct)
    /\ cal_last' = "can_start"
    /\ UNCHANGED <<cal_state, start_battery_pct, current_battery_pct, error_message>>

begin_check(battery_pct) ==
    /\ cal_state' = "CHECKING"
    /\ start_battery_pct' = battery_pct
    /\ current_battery_pct' = battery_pct
    /\ error_message' = ""
    /\ cal_last' = "begin_check"
    /\ UNCHANGED <<cs_pct, cs_result>>

begin_running ==
    /\ cal_state' = "RUNNING"
    /\ cal_last' = "begin_running"
    /\ UNCHANGED <<start_battery_pct, current_battery_pct, error_message, cs_pct,
                   cs_result>>

update_progress(battery_pct) ==
    /\ current_battery_pct' = battery_pct
    /\ cal_last' = "update_progress"
    /\ UNCHANGED <<cal_state, start_battery_pct, error_message, cs_pct, cs_result>>

complete ==
    /\ cal_state' = "COMPLETED"
    /\ cal_last' = "complete"
    /\ UNCHANGED <<start_battery_pct, current_battery_pct, error_message, cs_pct,
                   cs_result>>

abort ==
    /\ cal_state' = "ABORTED"
    /\ cal_last' = "abort"
    /\ UNCHANGED <<start_battery_pct, current_battery_pct, error_message, cs_pct,
                   cs_result>>

fail(message) ==
    /\ cal_state' = "FAILED"
    /\ error_message' = message
    /\ cal_last' = "fail"
    /\ UNCHANGED <<start_battery_pct, current_battery_pct, cs_pct, cs_result>>

reset ==
    /\ cal_state' = "IDLE"
    /\ start_battery_pct' = 0
    /\ current_battery_pct' = 0
    /\ error_message' = ""
    /\ cal_last' = "reset"
    /\ UNCHANGED <<cs_pct, cs_result>>

\* the methods, called in any order by the owner of the object
CalNext ==
    \/ \E b \in BatteryPcts : CanStart(b) /\ UNCHANGED varsNotCal
    \/ \E b \in BatteryPcts : begin_check(b) /\ UNCHANGED varsNotCal
    \/ begin_running /\ UNCHANGED varsNotCal
    \/ \E b \in BatteryPcts : update_progress(b) /\ UNCHANGED varsNotCal
    \/ complete /\ UNCHANGED varsNotCal
    \/ abort /\ UNCHANGED varsNotCal
    \/ \E m \in FailMessages : fail(m) /\ UNCHANGED varsNotCal
    \/ reset /\ UNCHANGED varsNotCal

(***************************************************************************)
(* UPSManager.start_calibration and abort_calibration, run by the caller   *)
(* threads against one CalibrationManager, with the device, the poll       *)
(* worker's battery reading and the service tab's display refresh.         *)
(***************************************************************************)
\* what send_command("D") gives: a response, None, or an exception from the
\* transport
SendOutcomes == {"OK", "NO", "NA", "None", "raise"}

\* the battery readings the poll worker stores
PolledPcts == {870, 1000}

InitCalOps ==
    /\ a_op = [t \in Callers |-> "none"]
    /\ a_pc = [t \in Callers |-> "idle"]
    /\ a_out = [t \in Callers |-> "none"]
    /\ a_ok = [t \in Callers |-> FALSE]
    /\ a_lock = "none"
    /\ a_gate = TRUE
    /\ a_proto = FALSE
    /\ a_batt = 0
    /\ dev_cal = FALSE

\* a manager, connected or not, whose state holds a full battery reading
InitCalOpsInputs ==
    /\ a_op = [t \in Callers |-> "none"]
    /\ a_pc = [t \in Callers |-> "idle"]
    /\ a_out = [t \in Callers |-> "none"]
    /\ a_ok = [t \in Callers |-> FALSE]
    /\ a_lock = "none"
    /\ a_gate = TRUE
    /\ a_proto \in BOOLEAN
    /\ a_batt = 1000
    /\ dev_cal = FALSE

AGoto(t, where) == a_pc' = [a_pc EXCEPT ![t] = where]

\* return False, reason
AFails(t) == AGoto(t, "ret") /\ a_ok' = [a_ok EXCEPT ![t] = FALSE]

\* the device receives 'D' (it starts a calibration, or stops the one that
\* runs) and the caller gets the outcome; with "raise" nothing was written
DeviceD(out) ==
    CASE out = "raise" -> dev_cal' = dev_cal
      [] out = "OK" -> dev_cal' = ~dev_cal
      [] out \in {"NO", "NA"} -> dev_cal' = dev_cal
      [] out = "None" -> dev_cal' \in BOOLEAN

\* a caller invokes start_calibration or abort_calibration
CalCall(t, o) ==
    /\ a_pc[t] = "idle"
    /\ a_op' = [a_op EXCEPT ![t] = o]
    /\ AGoto(t, "pre")
    /\ UNCHANGED <<a_out, a_ok, a_lock, a_gate, a_proto, a_batt, dev_cal, varsCal, varsNotCalibration>>

\* if not self._protocol: return False, "Not connected"
CalNotConnectedCheck(t) ==
    /\ a_pc[t] = "pre"
    /\ IF ~a_proto
       THEN AFails(t)
       ELSE AGoto(t, IF a_op[t] = "start_calibration" THEN "gate" ELSE "active")
            /\ UNCHANGED a_ok
    /\ UNCHANGED <<a_op, a_out, a_lock, a_gate, a_proto, a_batt, dev_cal, varsCal,
                   varsNotCalibration>>

\* can_start, reason = self.calibration.can_start(self.state.battery_capacity)
\* if not can_start: return False, reason
StartGate(t) ==
    /\ a_pc[t] = "gate"
    /\ CanStart(a_batt)
    /\ IF can_start(a_batt)[1]
       THEN AGoto(t, "acq") /\ UNCHANGED a_ok
       ELSE AFails(t)
    /\ UNCHANGED <<a_op, a_out, a_lock, a_gate, a_proto, a_batt, dev_cal,
                   varsNotCalibration>>

\* if not self.calibration.is_active: return False, "No calibration in progress"
AbortActiveCheck(t) ==
    /\ a_pc[t] = "active"
    /\ IF is_active
       THEN AGoto(t, "acq") /\ UNCHANGED a_ok
       ELSE AFails(t)
    /\ UNCHANGED <<a_op, a_out, a_lock, a_gate, a_proto, a_batt, dev_cal, varsCal,
                   varsNotCalibration>>

\* with self._cmd_lock:
CalAcquire(t) ==
    /\ a_pc[t] = "acq"
    /\ a_lock = "none"
    /\ a_lock' = t
    /\ AGoto(t, "pause")
    /\ UNCHANGED <<a_op, a_out, a_ok, a_gate, a_proto, a_batt, dev_cal, varsCal,
                   varsNotCalibration>>

\* self._pause_polling()
CalPause(t) ==
    /\ a_pc[t] = "pause"
    /\ a_gate' = FALSE
    /\ AGoto(t, IF a_op[t] = "start_calibration" THEN "check" ELSE "send")
    /\ UNCHANGED <<a_op, a_out, a_ok, a_lock, a_proto, a_batt, dev_cal, varsCal,
                   varsNotCalibration>>

\* self.calibration.begin_check(self.state.battery_capacity)
StartBeginCheck(t) ==
    /\ a_pc[t] = "check"
    /\ begin_check(a_batt)
    /\ AGoto(t, "send")
    /\ UNCHANGED <<a_op, a_out, a_ok, a_lock, a_gate, a_proto, a_batt, dev_cal,
                   varsNotCalibration>>

\* response = self._protocol.send_command("D"); an exception leaves the try
\* block for the finally clause
CalSend(t) ==
    /\ a_pc[t] = "send"
    /\ \E out \in SendOutcomes :
          /\ a_out' = [a_out EXCEPT ![t] = out]
          /\ DeviceD(out)
          /\ AGoto(t, IF out = "raise" THEN "fin" ELSE "judge")
    /\ UNCHANGED <<a_op, a_ok, a_lock, a_gate, a_proto, a_batt, varsCal,
                   varsNotCalibration>>

\* start_calibration: OK -> begin_running; NO -> fail; anything else -> fail
StartVerdict(out) == IF out = "OK" THEN "RUNNING" ELSE "FAILED"

\* start_calibration judges the response; abort_calibration ignores it and
\* calls self.calibration.abort()
CalJudge(t) ==
    /\ a_pc[t] = "judge"
    /\ IF a_op[t] = "abort_calibration"
       THEN abort /\ a_ok' = [a_ok EXCEPT ![t] = TRUE]
       ELSE IF StartVerdict(a_out[t]) = "RUNNING"
            THEN begin_running /\ a_ok' = [a_ok EXCEPT ![t] = TRUE]
            ELSE /\ fail(IF a_out[t] = "NO" THEN "Battery not at 100%"
                         ELSE "Unexpected: " \o a_out[t])
                 /\ a_ok' = [a_ok EXCEPT ![t] = FALSE]
    /\ AGoto(t, "fin")
    /\ UNCHANGED <<a_op, a_out, a_lock, a_gate, a_proto, a_batt, dev_cal,
                   varsNotCalibration>>

\* finally: self._resume_polling()
CalFinally(t) ==
    /\ a_pc[t] = "fin"
    /\ a_gate' = TRUE
    /\ AGoto(t, "rel")
    /\ UNCHANGED <<a_op, a_out, a_ok, a_lock, a_proto, a_batt, dev_cal, varsCal,
                   varsNotCalibration>>

\* the end of the with self._cmd_lock block
CalRelease(t) ==
    /\ a_pc[t] = "rel"
    /\ a_lock' = "none"
    /\ AGoto(t, "ret")
    /\ UNCHANGED <<a_op, a_out, a_ok, a_gate, a_proto, a_batt, dev_cal, varsCal,
                   varsNotCalibration>>

\* the operation has returned (or raised) to the service tab; after a
\* successful abort _cal_abort_done resets the machine
CalReturn(t) ==
    /\ a_pc[t] = "ret"
    /\ IF a_op[t] = "abort_calibration" /\ a_ok[t]
       THEN reset
       ELSE UNCHANGED varsCal
    /\ AGoto(t, "idle")
    /\ a_op' = [a_op EXCEPT ![t] = "none"]
    /\ a_out' = [a_out EXCEPT ![t] = "none"]
    /\ a_ok' = [a_ok EXCEPT ![t] = FALSE]
    /\ UNCHANGED <<a_lock, a_gate, a_proto, a_batt, dev_cal, varsNotCalibration>>

\* the poll worker stores the battery reading ('f') in the state
PollBattery ==
    /\ a_proto
    /\ \E b \in PolledPcts \ {a_batt} : a_batt' = b
    /\ UNCHANGED <<a_op, a_pc, a_out, a_ok, a_lock, a_gate, a_proto, dev_cal, varsCal,
                   varsNotCalibration>>

\* the device ends the discharge by itself
DeviceStops ==
    /\ dev_cal
    /\ dev_cal' = FALSE
    /\ UNCHANGED <<a_op, a_pc, a_out, a_ok, a_lock, a_gate, a_proto, a_batt, varsCal,
                   varsNotCalibration>>

\* ServiceTab.update_display: RUNNING -> update_progress(batt);
\* COMPLETED -> reset()
DisplayRefresh ==
    /\ cal_state \in {"RUNNING", "COMPLETED"}
    /\ IF cal_state = "RUNNING"
       THEN a_batt # current_battery_pct /\ update_progress(a_batt)
       ELSE reset
    /\ UNCHANGED <<varsCalOps, varsNotCalibration>>

CalStep(t) ==
    \/ CalNotConnectedCheck(t) \/ StartGate(t) \/ AbortActiveCheck(t)
    \/ CalAcquire(t) \/ CalPause(t) \/ StartBeginCheck(t) \/ CalSend(t)
    \/ CalJudge(t) \/ CalFinally(t) \/ CalRelease(t) \/ CalReturn(t)

CalOpsNext ==
    \/ \E t \in Callers : CalCall(t, "start_calibration")
    \/ \E t \in Callers : CalCall(t, "abort_calibration")
    \/ \E t \in Callers : CalStep(t)
    \/ PollBattery \/ DeviceStops \/ DisplayRefresh

(***************************************************************************)
(* The simple and dangerous command operations of UPSManager: what each    *)
(* makes of the response of its protocol call.  The mutex, the pause gate  *)
(* and the transport lock they take are those of Spec.                     *)
(***************************************************************************)
CommandOps == {"run_self_test", "test_lights_and_alarm",
               "simulate_power_failure", "toggle_bypass",
               "shutdown_turn_off_after_delay", "shutdown_turn_off_immediate",
               "shutdown_on_battery", "abort_shutdown", "reset_eeprom"}

\* what send_command / send_timed_command can return: None, or the line the
\* device sent, stripped (alert characters such as "*" never get through
\* _read_response_locked)
NoAnswer == [some |-> FALSE, text |-> ""]
Answer(s) == [some |-> TRUE, text |-> s]
AnswerTexts == {"OK", "NA", "NO", "BYP", "INV", "ERR", "CLEAR", "PROG", ""}
Answers == {NoAnswer} \cup {Answer(s) : s \in AnswerTexts}
NotAsked == [some |-> FALSE, text |-> "-"]

\* f"{response}"
Shown(r) == IF r.some THEN r.text ELSE "None"
\* "response and response.strip() ..."
Truthy(r) == r.some /\ r.text # ""

\* the responses an operation compares the answer with to report success
Enumerated(o) ==
    CASE o = "run_self_test" -> {"OK", "*"}
      [] o = "test_lights_and_alarm" -> {"OK"}
      [] o = "simulate_power_failure" -> {"OK", "*"}
      [] o = "shutdown_turn_off_after_delay" -> {"OK", "*"}
      [] o = "shutdown_on_battery" -> {"OK", "*"}
      [] o = "shutdown_turn_off_immediate" -> {"OK", "*"}
      [] o = "reset_eeprom" -> {"CLEAR"}
      [] o = "toggle_bypass" -> {"BYP", "INV"}
      [] o = "abort_shutdown" -> {}

SuccessMessage(o, r) ==
    CASE o = "run_self_test" -> "Self-test started"
      [] o = "test_lights_and_alarm" -> "Test started"
      [] o = "simulate_power_failure" -> "OK"
      [] o = "shutdown_turn_off_after_delay" -> "UPS will turn off after shutdown delay"
      [] o = "shutdown_on_battery" -> "UPS shutting down (will restart on utility power)"
      [] o = "shutdown_turn_off_immediate" -> "UPS turning off immediately"
      [] o = "reset_eeprom" -> "All settings reset to factory defaults"
      [] o = "toggle_bypass" ->
            IF r.text = "BYP" THEN "Transferring to bypass mode"
            ELSE "Transferring to normal mode"
      [] o = "abort_shutdown" -> ""

\* the if / elif / else chain of the operation o on the response r
JudgeCommand(o, r) ==
    CASE o = "abort_shutdown" ->
            [ok |-> TRUE, msg |-> "Abort sent (response: " \o Shown(r) \o ")"]
      [] o = "toggle_bypass" ->
            IF Truthy(r)
            THEN IF r.text \in Enumerated(o)
                 THEN [ok |-> TRUE, msg |-> SuccessMessage(o, r)]
                 ELSE IF r.text = "ERR"
                      THEN [ok |-> FALSE, msg |-> "Unable to switch bypass mode"]
                      ELSE [ok |-> TRUE, msg |-> "Response: " \o r.text]
            ELSE [ok |-> FALSE, msg |-> "No response"]
      [] OTHER ->
            IF Truthy(r) /\ r.text \in Enumerated(o)
            THEN [ok |-> TRUE, msg |-> SuccessMessage(o, r)]
            ELSE IF o = "run_self_test" /\ Truthy(r) /\ r.text = "NA"
                 THEN [ok |-> FALSE, msg |-> "Self-test not available right now"]
            ELSE IF o = "shutdown_turn_off_after_delay" /\ Truthy(r) /\ r.text = "NA"
                 THEN [ok |-> FALSE, msg |-> "Command conflicts with another operation"]
            ELSE IF o \in {"run_self_test", "test_lights_and_alarm"}
                 THEN [ok |-> FALSE, msg |-> "Unexpected response: " \o Shown(r)]
                 ELSE [ok |-> FALSE, msg |-> "Response: " \o Shown(r)]

\* the operations that log when they succeed (abort_shutdown logs always)
LogsCommand(o, r) ==
    \/ o = "abort_shutdown"
    \/ o = "toggle_bypass" /\ Truthy(r) /\ r.text \in Enumerated(o)
    \/ o # "toggle_bypass" /\ JudgeCommand(o, r).ok

NoVerdict == [ok |-> FALSE, msg |-> ""]

InitCmds ==
    /\ q_op = "none"
    /\ q_pc = "idle"
    /\ q_proto = TRUE
    /\ q_resp = NotAsked
    /\ q_result = NoVerdict
    /\ q_logged = FALSE
    /\ q_reread = FALSE

\* a manager that is connected, and one that is not
InitCmdsInputs ==
    /\ q_op = "none"
    /\ q_pc = "idle"
    /\ q_proto \in BOOLEAN
    /\ q_resp = NotAsked
    /\ q_result = NoVerdict
    /\ q_logged = FALSE
    /\ q_reread = FALSE

\* the operation o is called: "if not self._protocol: return False, ..."
CommandCall(o) ==
    /\ q_pc = "idle"
    /\ q_op' = o
    /\ q_resp' = NotAsked
    /\ q_logged' = FALSE
    /\ q_reread' = FALSE
    /\ IF q_proto
       THEN q_pc' = "sent" /\ q_result' = NoVerdict
       ELSE q_pc' = "ret" /\ q_result' = [ok |-> FALSE, msg |-> "Not connected"]
    /\ UNCHANGED q_proto
    /\ UNCHANGED varsNotCmds

\* the protocol call returns r and the operation returns its verdict
CommandAnswered(r) ==
    /\ q_pc = "sent"
    /\ q_resp' = r
    /\ q_result' = JudgeCommand(q_op, r)
    /\ q_logged' = LogsCommand(q_op, r)
    /\ q_reread' = (q_op = "reset_eeprom" /\ JudgeCommand(q_op, r).ok)
    /\ q_pc' = "ret"
    /\ UNCHANGED <<q_op, q_proto>>
    /\ UNCHANGED varsNotCmds

\* the protocol call raises: the finally clause runs and nothing is returned
CommandRaises ==
    /\ q_pc = "sent"
    /\ q_pc' = "raised"
    /\ UNCHANGED <<q_op, q_proto, q_resp, q_result, q_logged, q_reread>>
    /\ UNCHANGED varsNotCmds

\* the caller has its answer
CommandDone ==
    /\ q_pc \in {"ret", "raised"}
    /\ q_pc' = "idle"
    /\ q_op' = "none"
    /\ q_resp' = NotAsked
    /\ q_result' = NoVerdict
    /\ q_logged' = FALSE
    /\ q_reread' = FALSE
    /\ UNCHANGED q_proto
    /\ UNCHANGED varsNotCmds

CmdsNext ==
    \/ \E o \in CommandOps : CommandCall(o)
    \/ \E r \in Answers : CommandAnswered(r)
    \/ CommandRaises
    \/ CommandDone

(***************************************************************************)
(* _poll_loop and _read_and_update when the transport fails.  The manager  *)
(* is connected and polling is not paused; send_command returns a value,   *)
(* returns None, or raises.                                                *)
(***************************************************************************)
\* str(e) of the exceptions SerialConnection.write / read let through
IOErrors == {"Serial port is not open", "Input/output error"}
\* str(e) of an exception raised by the computations that follow the reads
ComputeErrors == {"MemoryError"}

ReadOutcomes == {"value", "None"} \cup IOErrors

\* "if slow_counter >= 5"
SlowDueEarly(n) == n >= SlowPollEvery - 1
SlowDue(n) == n >= SlowPollEvery

WCmds(phase) == IF phase = "fast" THEN FastCmds ELSE SlowCmds

InitPollErr ==
    /\ w_pc = "top"
    /\ w_phase = "fast"
    /\ w_idx = 1
    /\ w_slow = 0
    /\ w_stop = FALSE
    /\ w_last_error = ""
    /\ w_raised = ""
    /\ w_logged = {}
    /\ w_fast_done = 0

\* "while not self._poll_stop.is_set()": a cycle begins, or the worker ends
WTop ==
    /\ w_pc = "top"
    /\ w_stop \/ w_fast_done < MaxCycles
    /\ IF w_stop
       THEN w_pc' = "done" /\ UNCHANGED <<w_raised, w_logged>>
       ELSE w_pc' = "read" /\ w_raised' = "" /\ w_logged' = {}
    /\ w_phase' = "fast"
    /\ w_idx' = 1
    /\ UNCHANGED <<w_slow, w_stop, w_last_error, w_fast_done>>
    /\ UNCHANGED varsNotPollErr

\* one iteration of a for loop: the stop checks, then _read_and_update, which
\* catches whatever send_command raises, logs it and returns None
WReadAndUpdate(o) ==
    /\ w_pc = "read"
    /\ w_idx <= Len(WCmds(w_phase))
    /\ IF w_stop
       THEN /\ w_pc' = "done"
            /\ UNCHANGED <<w_idx, w_raised, w_logged>>
       ELSE /\ w_idx' = w_idx + 1
            /\ w_pc' = IF w_idx = Len(WCmds(w_phase))
                       THEN (IF w_phase = "fast" THEN "post_fast" ELSE "post_slow")
                       ELSE "read"
            /\ IF o \in IOErrors
               THEN w_raised' = o /\ w_logged' = w_logged \cup {o}
               ELSE UNCHANGED <<w_raised, w_logged>>
    /\ UNCHANGED <<w_phase, w_slow, w_stop, w_last_error, w_fast_done>>
    /\ UNCHANGED varsNotPollErr

\* _compute_load_watts, _record_battery_history, slow_counter += 1
WPostFast(fails) ==
    /\ w_pc = "post_fast"
    /\ IF fails
       THEN w_pc' = "except" /\ UNCHANGED <<w_slow, w_phase, w_idx, w_fast_done>>
       ELSE /\ w_fast_done' = w_fast_done + 1
            /\ IF SlowDue(w_slow + 1)
               THEN w_slow' = 0 /\ w_phase' = "slow" /\ w_idx' = 1 /\ w_pc' = "read"
               ELSE w_slow' = w_slow + 1 /\ w_pc' = "wait"
                    /\ UNCHANGED <<w_phase, w_idx>>
    /\ UNCHANGED <<w_stop, w_last_error, w_raised, w_logged>>
    /\ UNCHANGED varsNotPollErr

\* _check_temperature, _compute_battery_age
WPostSlow(fails) ==
    /\ w_pc = "post_slow"
    /\ w_pc' = IF fails THEN "except" ELSE "wait"
    /\ UNCHANGED <<w_phase, w_idx, w_slow, w_stop, w_last_error, w_raised, w_logged, w_fast_done>>
    /\ UNCHANGED varsNotPollErr

\* "except Exception as e: self.state.update(last_error=str(e))"
WExcept(e) ==
    /\ w_pc = "except"
    /\ w_last_error' = e
    /\ w_logged' = w_logged \cup {e}
    /\ w_pc' = "wait"
    /\ UNCHANGED <<w_phase, w_idx, w_slow, w_stop, w_raised, w_fast_done>>
    /\ UNCHANGED varsNotPollErr

\* self._poll_stop.wait(timeout=2.0)
WCycleWait ==
    /\ w_pc = "wait"
    /\ w_pc' = "top"
    /\ UNCHANGED <<w_phase, w_idx, w_slow, w_stop, w_last_error, w_raised, w_logged, w_fast_done>>
    /\ UNCHANGED varsNotPollErr

\* stop_polling sets the stop event
WStopPolling ==
    /\ ~w_stop
    /\ w_pc # "done"
    /\ w_stop' = TRUE
    /\ UNCHANGED <<w_pc, w_phase, w_idx, w_slow, w_last_error, w_raised, w_logged, w_fast_done>>
    /\ UNCHANGED varsNotPollErr

PollErrNext ==
    \/ WTop
    \/ \E o \in ReadOutcomes : WReadAndUpdate(o)
    \/ \E f \in BOOLEAN : WPostFast(f)
    \/ \E f \in BOOLEAN : WPostSlow(f)
    \/ \E e \in ComputeErrors : WExcept(e)
    \/ WCycleWait
    \/ WStopPolling

(***************************************************************************)
(* The transport as the methods of UPSProtocol and SerialConnection use    *)
(* it: every operation on the serial port is appended to wire.  "u1" runs  *)
(* send_setting_edit, "poll" the send_command calls of the poll worker,    *)
(* "u2" the unguarded get_test_result, close and open.                     *)
(***************************************************************************)
WireThreads == {"u1", "u2", "poll"}
\* customizing commands of the catalogue: self-test interval, sensitivity
EditCmds == {"E", "s"}
\* operations on the port one behaviour of SpecWire records
MaxWire == 9
\* read(1) calls one _read_response_locked makes
MaxReads == 2

WireMenu(t) ==
    IF t = "u1" THEN {<<"send_setting_edit", c>> : c \in EditCmds}
    ELSE IF t = "poll" THEN {<<"send_command", FastCmds[1]>>}
    ELSE {<<"send_command", "X">>, <<"close", "">>, <<"open", "">>}

InitWire ==
    /\ t_lock = "none"
    /\ t_open = TRUE
    /\ t_op = [t \in WireThreads |-> "none"]
    /\ t_cmd = [t \in WireThreads |-> ""]
    /\ t_pc = [t \in WireThreads |-> "idle"]
    /\ t_reads = [t \in WireThreads |-> 0]
    /\ wire = <<>>

WGoto(t, where) == t_pc' = [t_pc EXCEPT ![t] = where]

\* one operation on the port
PortOp(t, kind, data) == [by |-> t, op |-> kind, data |-> data]

\* "with self._conn.lock" can be entered
TransportFreeAlways(t) == TRUE
TransportFree(t) == t_lock = "none"

\* a protocol method or close / open is called
WireCall(t, m) ==
    /\ t_pc[t] = "idle"
    /\ t_op' = [t_op EXCEPT ![t] = m[1]]
    /\ t_cmd' = [t_cmd EXCEPT ![t] = m[2]]
    /\ t_reads' = [t_reads EXCEPT ![t] = 0]
    /\ WGoto(t, "acq")
    /\ UNCHANGED <<t_lock, t_open, wire>>
    /\ UNCHANGED varsNotWire

\* "with self._conn.lock:" / "with self._lock:"
WireAcquire(t) ==
    /\ t_pc[t] = "acq"
    /\ TransportFree(t)
    /\ t_lock' = t
    /\ WGoto(t, IF t_op[t] \in {"close", "open"} THEN t_op[t] ELSE "write")
    /\ UNCHANGED <<t_open, t_op, t_cmd, t_reads, wire>>
    /\ UNCHANGED varsNotWire

\* ConnectionError("Serial port is not open"): the with block is left
WireRaise(t) ==
    /\ t_lock' = "none"
    /\ WGoto(t, "idle")
    /\ t_op' = [t_op EXCEPT ![t] = "none"]
    /\ UNCHANGED <<t_open, t_cmd, t_reads, wire>>

\* flush_input and the write of the command character
WireWriteCmd(t) ==
    /\ t_pc[t] = "write"
    /\ IF t_open
       THEN /\ Len(wire) + 2 <= MaxWire
            /\ wire' = wire \o <<PortOp(t, "flush", ""), PortOp(t, "write", t_cmd[t])>>
            /\ WGoto(t, "read1")
            /\ t_reads' = [t_reads EXCEPT ![t] = 0]
            /\ UNCHANGED <<t_lock, t_open, t_op, t_cmd>>
       ELSE WireRaise(t)
    /\ UNCHANGED varsNotWire

\* one read(1) of _read_response_locked; last: it was the terminator, or timed out
WireRead(t, last) ==
    /\ t_pc[t] \in {"read1", "read2"}
    /\ IF t_open
       THEN /\ Len(wire) < MaxWire
            /\ wire' = Append(wire, PortOp(t, "read", ""))
            /\ IF last \/ t_reads[t] + 1 >= MaxReads
               THEN /\ WGoto(t, IF t_pc[t] = "read1" /\ t_op[t] = "send_setting_edit"
                                THEN "dash" ELSE "rel")
                    /\ t_reads' = [t_reads EXCEPT ![t] = 0]
               ELSE /\ t_reads' = [t_reads EXCEPT ![t] = @ + 1]
                    /\ UNCHANGED t_pc
            /\ UNCHANGED <<t_lock, t_open, t_op, t_cmd>>
       ELSE WireRaise(t)
    /\ UNCHANGED varsNotWire

\* send_setting_edit: self._conn.write(b"-")
WireWriteDash(t) ==
    /\ t_pc[t] = "dash"
    /\ IF t_open
       THEN /\ Len(wire) < MaxWire
            /\ wire' = Append(wire, PortOp(t, "write", "-"))
            /\ WGoto(t, "read2")
            /\ UNCHANGED <<t_lock, t_open, t_op, t_cmd, t_reads>>
       ELSE WireRaise(t)
    /\ UNCHANGED varsNotWire

\* SerialConnection.close: _close_port_locked
WireClose(t) ==
    /\ t_pc[t] = "close"
    /\ IF t_open
       THEN /\ Len(wire) < MaxWire
            /\ wire' = Append(wire, PortOp(t, "close", ""))
       ELSE UNCHANGED wire
    /\ t_open' = FALSE
    /\ WGoto(t, "rel")
    /\ UNCHANGED <<t_lock, t_op, t_cmd, t_reads>>
    /\ UNCHANGED varsNotWire

\* SerialConnection.open
WireOpen(t) ==
    /\ t_pc[t] = "open"
    /\ t_open' = TRUE
    /\ WGoto(t, "rel")
    /\ UNCHANGED <<t_lock, t_op, t_cmd, t_reads, wire>>
    /\ UNCHANGED varsNotWire

\* the with block ends
WireRelease(t) ==
    /\ t_pc[t] = "rel"
    /\ t_lock' = "none"
    /\ WGoto(t, "idle")
    /\ t_op' = [t_op EXCEPT ![t] = "none"]
    /\ UNCHANGED <<t_open, t_cmd, t_reads, wire>>
    /\ UNCHANGED varsNotWire

WireNext ==
    \E t \in WireThreads :
        \/ \E m \in WireMenu(t) : WireCall(t, m)
        \/ WireAcquire(t)
        \/ WireWriteCmd(t)
        \/ \E last \in BOOLEAN : WireRead(t, last)
        \/ WireWriteDash(t)
        \/ WireClose(t)
        \/ WireOpen(t)
        \/ WireRelease(t)

(***************************************************************************)
(* _check_temperature: the slow poll reads the temperature, then the check *)
(* runs; the user may change the threshold at any time.                    *)
(***************************************************************************)
Temperatures == {-1, 0, 39, 40, 41}
Thresholds == {TemperatureAlertThreshold - 1, TemperatureAlertThreshold,
               TemperatureAlertThreshold + 1}

\* "is_over = temp >= threshold"
is_over_strictly(temp, threshold) == temp > threshold
is_over(temp, threshold) == temp >= threshold

InitTemp ==
    /\ h_temperature = 0
    /\ h_threshold = TemperatureAlertThreshold
    /\ h_active = FALSE
    /\ h_len = 0
    /\ h_pc = "idle"
    /\ h_said = "none"

\* _read_and_update("C") of the slow loop stores the temperature
TemperaturePolled(v) ==
    /\ h_pc = "idle"
    /\ h_temperature' = v
    /\ h_pc' = "check"
    /\ UNCHANGED <<h_threshold, h_active, h_len, h_said>>
    /\ UNCHANGED varsNotTemp

\* _check_temperature
CheckTemperature ==
    /\ h_pc = "check"
    /\ h_pc' = "idle"
    /\ IF h_temperature <= 0
       THEN /\ h_said' = "none"
            /\ UNCHANGED <<h_active, h_len>>
       ELSE /\ h_len' = IF h_len + 1 > TemperatureHistoryCap
                        THEN TemperatureHistoryCap ELSE h_len + 1
            /\ LET over == is_over(h_temperature, h_threshold)
                   was_active == h_active
               IN  IF over /\ ~was_active
                   THEN h_active' = TRUE /\ h_said' = "WARNING: exceeds threshold"
                   ELSE IF ~over /\ was_active
                        THEN h_active' = FALSE /\ h_said' = "returned below threshold"
                        ELSE h_active' = h_active /\ h_said' = "none"
    /\ UNCHANGED <<h_temperature, h_threshold>>
    /\ UNCHANGED varsNotTemp

\* set_temperature_alert_threshold, called by the user interface
SetThreshold(x) ==
    /\ h_threshold # x
    /\ h_threshold' = x
    /\ UNCHANGED <<h_temperature, h_active, h_len, h_pc, h_said>>
    /\ UNCHANGED varsNotTemp

TempNext ==
    \/ \E v \in Temperatures : TemperaturePolled(v)
    \/ CheckTemperature
    \/ \E x \in Thresholds : SetThreshold(x)

(***************************************************************************)
(* start_polling, stop_polling, disconnect and connect called one after    *)
(* the other by one thread, the worker threads they create, and a user     *)
(* command that pauses and resumes polling.                                *)
(***************************************************************************)
\* worker threads alive at once that the model can tell apart
MaxWorkers == 2
Workers == 1..MaxWorkers
NoThread == 0

LifecycleOps == {"start_polling", "stop_polling", "disconnect", "connect"}

WorkerRuns(w) == g_wpc[w] \notin {"unborn", "done"}

InitWorkers ==
    /\ g_stop = FALSE
    /\ g_gate = TRUE
    /\ g_thread = NoThread
    /\ g_connected = TRUE
    /\ g_cop = "none"
    /\ g_cpc = "idle"
    /\ g_user = "idle"
    /\ g_wpc = [w \in Workers |-> "unborn"]
    /\ g_wphase = [w \in Workers |-> "fast"]
    /\ g_widx = [w \in Workers |-> 1]
    /\ g_stopped = [w \in Workers |-> FALSE]
    /\ g_after = [w \in Workers |-> 0]

varsWorkerThreads == <<g_wpc, g_wphase, g_widx, g_stopped, g_after>>
varsLifecycle == <<g_stop, g_gate, g_thread, g_connected, g_cop, g_cpc, g_user>>

----------------------------------------------------------------------------
\* the worker w steps to the position where
WorkerGoto(w, where) == g_wpc' = [g_wpc EXCEPT ![w] = where]

\* "while not self._poll_stop.is_set()"
WorkerTop(w) ==
    /\ g_wpc[w] = "top"
    /\ WorkerGoto(w, IF g_stop THEN "done" ELSE "wait0")
    /\ UNCHANGED <<g_wphase, g_widx, g_stopped, g_after, varsLifecycle>>
    /\ UNCHANGED varsNotWorkers

\* self._poll_paused.wait(timeout=1.0), here and in the two for loops: it
\* returns at once when the gate is open and after the timeout when it is
\* closed, and the result is not looked at
WorkerGateWait(w) ==
    /\ g_wpc[w] \in {"wait0", "wait"}
    /\ WorkerGoto(w, IF g_wpc[w] = "wait0" THEN "chk0" ELSE "chk2")
    /\ UNCHANGED <<g_wphase, g_widx, g_stopped, g_after, varsLifecycle>>
    /\ UNCHANGED varsNotWorkers

\* if stop: break;  if not connected: sleep(1.0), continue;  else the fast loop
WorkerCheck0(w) ==
    /\ g_wpc[w] = "chk0"
    /\ IF g_stop
       THEN WorkerGoto(w, "done") /\ UNCHANGED <<g_wphase, g_widx>>
       ELSE IF ~g_connected
            THEN WorkerGoto(w, "top") /\ UNCHANGED <<g_wphase, g_widx>>
            ELSE /\ WorkerGoto(w, "chk1")
                 /\ g_wphase' = [g_wphase EXCEPT ![w] = "fast"]
                 /\ g_widx' = [g_widx EXCEPT ![w] = 1]
    /\ UNCHANGED <<g_stopped, g_after, varsLifecycle>>
    /\ UNCHANGED varsNotWorkers

\* "if self._poll_stop.is_set(): return", before and after the wait
WorkerStopCheck(w) ==
    /\ g_wpc[w] \in {"chk1", "chk2"}
    /\ WorkerGoto(w, IF g_stop THEN "done"
                     ELSE IF g_wpc[w] = "chk1" THEN "wait" ELSE "read")
    /\ UNCHANGED <<g_wphase, g_widx, g_stopped, g_after, varsLifecycle>>
    /\ UNCHANGED varsNotWorkers

\* _read_and_update: the command is written to the device
WorkerSend(w) ==
    /\ g_wpc[w] = "read"
    /\ WorkerGoto(w, "resp")
    /\ g_after' = [g_after EXCEPT ![w] = IF g_stopped[w] /\ @ < 2 THEN @ + 1 ELSE @]
    /\ UNCHANGED <<g_wphase, g_widx, g_stopped, varsLifecycle>>
    /\ UNCHANGED varsNotWorkers

\* the response arrives or the read times out; the loop goes on
WorkerResponse(w) ==
    /\ g_wpc[w] = "resp"
    /\ IF g_widx[w] < Len(WCmds(g_wphase[w]))
       THEN /\ WorkerGoto(w, "chk1")
            /\ g_widx' = [g_widx EXCEPT ![w] = @ + 1]
       ELSE /\ WorkerGoto(w, IF g_wphase[w] = "fast" THEN "post_fast" ELSE "cycle_wait")
            /\ g_widx' = [g_widx EXCEPT ![w] = 1]
    /\ UNCHANGED <<g_wphase, g_stopped, g_after, varsLifecycle>>
    /\ UNCHANGED varsNotWorkers

\* the computations after the fast loop; the slow loop is due or not
WorkerPostFast(w, isSlow) ==
    /\ g_wpc[w] = "post_fast"
    /\ IF isSlow
       THEN /\ WorkerGoto(w, "chk1")
            /\ g_wphase' = [g_wphase EXCEPT ![w] = "slow"]
       ELSE /\ WorkerGoto(w, "cycle_wait")
            /\ UNCHANGED g_wphase
    /\ UNCHANGED <<g_widx, g_stopped, g_after, varsLifecycle>>
    /\ UNCHANGED varsNotWorkers

\* self._poll_stop.wait(timeout=2.0)
WorkerCycleWait(w) ==
    /\ g_wpc[w] = "cycle_wait"
    /\ WorkerGoto(w, "top")
    /\ g_wphase' = [g_wphase EXCEPT ![w] = "fast"]
    /\ UNCHANGED <<g_widx, g_stopped, g_after, varsLifecycle>>
    /\ UNCHANGED varsNotWorkers

WorkerStep(w) ==
    \/ WorkerTop(w) \/ WorkerGateWait(w) \/ WorkerCheck0(w)
    \/ WorkerStopCheck(w) \/ WorkerSend(w) \/ WorkerResponse(w)
    \/ \E isSlow \in BOOLEAN : WorkerPostFast(w, isSlow)
    \/ WorkerCycleWait(w)

----------------------------------------------------------------------------
\* a lifecycle method is called
LifecycleCall(o) ==
    /\ g_cpc = "idle"
    /\ g_cop' = o
    /\ g_cpc' = CASE o = "start_polling" -> "start"
                  [] o = "stop_polling" -> "signal"
                  [] o = "disconnect" -> "mark"
                  [] o = "connect" -> "connect"
    /\ UNCHANGED <<g_stop, g_gate, g_thread, g_connected, g_user, varsWorkerThreads>>
    /\ UNCHANGED varsNotWorkers

\* a thread object that is not running: one never started, or one that ended
FreeWorker == CHOOSE w \in Workers : ~WorkerRuns(w)

\* "if self._poll_thread and self._poll_thread.is_alive(): return"
StartRefused == g_thread # NoThread /\ WorkerRuns(g_thread)

\* start_polling
StartWorker ==
    /\ g_cpc = "start"
    /\ IF StartRefused
       THEN UNCHANGED <<g_stop, g_gate, g_thread, varsWorkerThreads>>
       ELSE /\ \E w \in Workers : ~WorkerRuns(w)
            /\ g_stop' = FALSE
            /\ g_gate' = TRUE
            /\ g_thread' = FreeWorker
            /\ g_wpc' = [g_wpc EXCEPT ![FreeWorker] = "top"]
            /\ g_wphase' = [g_wphase EXCEPT ![FreeWorker] = "fast"]
            /\ g_widx' = [g_widx EXCEPT ![FreeWorker] = 1]
            /\ g_stopped' = [g_stopped EXCEPT ![FreeWorker] = FALSE]
            /\ g_after' = [g_after EXCEPT ![FreeWorker] = 0]
    /\ g_cpc' = "idle"
    /\ g_cop' = "none"
    /\ UNCHANGED <<g_connected, g_user>>
    /\ UNCHANGED varsNotWorkers

\* stop_polling: self._poll_stop.set(); self._poll_paused.set()
StopSignal ==
    /\ g_cpc = "signal"
    /\ g_stop' = TRUE
    /\ g_gate' = TRUE
    /\ g_stopped' = [w \in Workers |-> g_stopped[w] \/ WorkerRuns(w)]
    /\ g_cpc' = IF g_thread # NoThread THEN "join" ELSE "stopped"
    /\ UNCHANGED <<g_thread, g_connected, g_cop, g_user, g_wpc, g_wphase, g_widx, g_after>>
    /\ UNCHANGED varsNotWorkers

\* Thread.join(timeout=5.0) returns: the worker has ended, or the timeout
\* has passed while the worker is inside an exchange with the device
JoinEnds(timedOut) ==
    IF timedOut THEN g_wpc[g_thread] = "resp" ELSE ~WorkerRuns(g_thread)

\* stop_polling: self._poll_thread.join(timeout=5.0); self._poll_thread = None
StopJoin ==
    /\ g_cpc = "join"
    /\ \E timedOut \in BOOLEAN : JoinEnds(timedOut)
    /\ g_thread' = NoThread
    /\ g_cpc' = "stopped"
    /\ UNCHANGED <<g_stop, g_gate, g_connected, g_cop, g_user, varsWorkerThreads>>
    /\ UNCHANGED varsNotWorkers

\* stop_polling returns; disconnect goes on to close the port and drop the
\* protocol
StopReturns ==
    /\ g_cpc = "stopped"
    /\ g_cpc' = "idle"
    /\ g_cop' = "none"
    /\ UNCHANGED <<g_stop, g_gate, g_thread, g_connected, g_user, varsWorkerThreads>>
    /\ UNCHANGED varsNotWorkers

\* disconnect: state.update(connected=False, ...), then stop_polling
DisconnectFirst ==
    /\ g_cpc = "mark"
    /\ g_connected' = FALSE
    /\ g_cpc' = "signal"
    /\ UNCHANGED <<g_stop, g_gate, g_thread, g_cop, g_user, varsWorkerThreads>>
    /\ UNCHANGED varsNotWorkers

\* connect: the handshake succeeds and state.connected is set
ConnectAgain ==
    /\ g_cpc = "connect"
    /\ g_connected' = TRUE
    /\ g_cpc' = "idle"
    /\ g_cop' = "none"
    /\ UNCHANGED <<g_stop, g_gate, g_thread, g_user, varsWorkerThreads>>
    /\ UNCHANGED varsNotWorkers

\* a user command: _pause_polling ... _resume_polling
UserPauses ==
    /\ g_user = "idle"
    /\ g_user' = "busy"
    /\ g_gate' = FALSE
    /\ UNCHANGED <<g_stop, g_thread, g_connected, g_cop, g_cpc, varsWorkerThreads>>
    /\ UNCHANGED varsNotWorkers

UserResumes ==
    /\ g_user = "busy"
    /\ g_user' = "idle"
    /\ g_gate' = TRUE
    /\ UNCHANGED <<g_stop, g_thread, g_connected, g_cop, g_cpc, varsWorkerThreads>>
    /\ UNCHANGED varsNotWorkers

LifecycleStep ==
    \/ StartWorker \/ StopSignal \/ StopJoin \/ StopReturns
    \/ DisconnectFirst \/ ConnectAgain

WorkersNext ==
    \/ \E w \in Workers : WorkerStep(w)
    \/ \E o \in LifecycleOps : LifecycleCall(o)
    \/ LifecycleStep
    \/ UserPauses \/ UserResumes

(***************************************************************************)
(* SerialConnection.open and close (serial_conn.py).  One thread opens the *)
(* transport, another closes it; whether serial.Serial(...) succeeds is    *)
(* the operating system's choice at every attempt.                         *)
(***************************************************************************)
\* serial_conn.py:22
OPEN_RETRIES == 4
\* open() calls of one behaviour
MaxOpens == 2
\* the exceptions open() catches (serial_conn.py:65), and one it does not
TransientErrors == {"PermissionError", "SerialException"}
OtherErrors == {"ValueError"}
CtorOutcomes == {"ok"} \cup TransientErrors \cup OtherErrors
NoError == <<>>

\* for attempt in range(self.OPEN_RETRIES)
InRangeAndOne(attempt) == attempt <= OPEN_RETRIES
InRange(attempt) == attempt < OPEN_RETRIES

InitOpen ==
    /\ o_port = "none"
    /\ o_lock = FALSE
    /\ o_pc = "idle"
    /\ o_attempt = 0
    /\ o_outcomes = <<>>
    /\ o_last_error = NoError
    /\ o_raised = NoError
    /\ o_calls = 0

\* open(port) is called and takes the transport lock
OpenCall ==
    /\ o_pc \in {"idle", "ret", "raised"}
    /\ o_calls < MaxOpens
    /\ ~o_lock
    /\ o_lock' = TRUE
    /\ o_pc' = "entry"
    /\ o_calls' = o_calls + 1
    /\ o_attempt' = 0
    /\ o_outcomes' = <<>>
    /\ o_last_error' = NoError
    /\ o_raised' = NoError
    /\ UNCHANGED o_port
    /\ UNCHANGED varsNotOpen

\* a port that is already open is closed first; last_error = None; the loop
\* begins
OpenCloseOld ==
    /\ o_pc = "entry"
    /\ o_port' = "none"
    /\ o_pc' = "loop"
    /\ UNCHANGED <<o_lock, o_attempt, o_outcomes, o_last_error, o_raised, o_calls>>
    /\ UNCHANGED varsNotOpen

\* the head of the for loop: another attempt, or the loop is exhausted
OpenLoop ==
    /\ o_pc = "loop"
    /\ o_pc' = IF InRange(o_attempt) THEN "try" ELSE "exhausted"
    /\ UNCHANGED <<o_port, o_lock, o_attempt, o_outcomes, o_last_error, o_raised, o_calls>>
    /\ UNCHANGED varsNotOpen

\* self._port = serial.Serial(...): return on success, remember a transient
\* error, let any other exception out
OpenAttempt(outcome) ==
    /\ o_pc = "try"
    /\ o_outcomes' = Append(o_outcomes, outcome)
    /\ IF outcome = "ok"
       THEN /\ o_port' = "open"
            /\ o_pc' = "ret"
            /\ o_lock' = FALSE
            /\ UNCHANGED <<o_attempt, o_last_error, o_raised>>
       ELSE IF outcome \in TransientErrors
       THEN /\ o_last_error' = <<outcome, o_attempt>>
            /\ o_pc' = IF o_attempt < OPEN_RETRIES - 1 THEN "sleep" ELSE "loop"
            /\ o_attempt' = IF o_attempt < OPEN_RETRIES - 1 THEN o_attempt ELSE o_attempt + 1
            /\ UNCHANGED <<o_port, o_lock, o_raised>>
       ELSE /\ o_raised' = <<outcome, o_attempt>>
            /\ o_pc' = "raised"
            /\ o_lock' = FALSE
            /\ UNCHANGED <<o_port, o_attempt, o_last_error>>
    /\ UNCHANGED o_calls
    /\ UNCHANGED varsNotOpen

\* time.sleep(self.OPEN_RETRY_DELAY), then the next iteration
OpenRetrySleep ==
    /\ o_pc = "sleep"
    /\ o_pc' = "loop"
    /\ o_attempt' = o_attempt + 1
    /\ UNCHANGED <<o_port, o_lock, o_outcomes, o_last_error, o_raised, o_calls>>
    /\ UNCHANGED varsNotOpen

\* raise last_error
OpenRaiseLast ==
    /\ o_pc = "exhausted"
    /\ o_raised' = o_last_error
    /\ o_pc' = "raised"
    /\ o_lock' = FALSE
    /\ UNCHANGED <<o_port, o_attempt, o_outcomes, o_last_error, o_calls>>
    /\ UNCHANGED varsNotOpen

\* close() by another thread: with self._lock: self._close_port_locked()
OpenOtherCloses ==
    /\ ~o_lock
    /\ o_port = "open"
    /\ o_port' = "none"
    /\ UNCHANGED <<o_lock, o_pc, o_attempt, o_outcomes, o_last_error, o_raised, o_calls>>
    /\ UNCHANGED varsNotOpen

OpenStep ==
    \/ OpenCloseOld \/ OpenLoop \/ OpenRetrySleep \/ OpenRaiseLast
    \/ \E outcome \in CtorOutcomes : OpenAttempt(outcome)

OpenNext == OpenCall \/ OpenStep \/ OpenOtherCloses

(***************************************************************************)
(* UPSManager.__init__                                                     *)
(***************************************************************************)
InitMgr ==
    /\ poll_stop = FALSE
    /\ poll_paused = TRUE
    /\ cmd_lock = "none"
    /\ conn_lock = "none"
    /\ port_open = FALSE
    /\ protocol = FALSE
    /\ connected = FALSE
    /\ poll_thread = FALSE
    /\ ppc = "idle"
    /\ pphase = "fast"
    /\ pidx = 1
    /\ slow_counter = 0
    /\ op = [t \in Callers |-> "none"]
    /\ pc = [t \in Callers |-> "idle"]
    /\ steps = [t \in Callers |-> 0]
    /\ success = [t \in Callers |-> "unbound"]
    /\ exc = [t \in Callers |-> FALSE]
    /\ entered = [t \in Callers |-> FALSE]
    /\ resumes = [t \in Callers |-> 0]

PollerAlive == ppc \notin {"idle", "done"}

(***************************************************************************)
(* _poll_loop                                                              *)
(***************************************************************************)
\* while not self._poll_stop.is_set()
PollTop ==
    /\ ppc = "top"
    /\ ppc' = IF poll_stop THEN "done" ELSE "wait0"
    /\ UNCHANGED <<pphase, pidx, slow_counter, varsMgr, varsCall,
                   varsNotOrch>>

\* Event.wait(timeout=1.0): returns at once when the event is set, and after
\* the timeout when it stays clear; the result is not looked at.
PausedWaitReturns(timedOut) ==
    IF timedOut THEN ~poll_paused ELSE poll_paused

PollWait0 ==
    /\ ppc = "wait0"
    /\ \E timedOut \in BOOLEAN : PausedWaitReturns(timedOut)
    /\ ppc' = "chk0"
    /\ UNCHANGED <<pphase, pidx, slow_counter, varsMgr, varsCall,
                   varsNotOrch>>

\* if stop: break;  if not connected: sleep, continue;  else the fast loop
PollCheck0 ==
    /\ ppc = "chk0"
    /\ IF poll_stop
       THEN ppc' = "done" /\ UNCHANGED <<pphase, pidx>>
       ELSE IF ~connected
            THEN ppc' = "top" /\ UNCHANGED <<pphase, pidx>>
            ELSE ppc' = "chk1" /\ pphase' = "fast" /\ pidx' = 1
    /\ UNCHANGED <<slow_counter, varsMgr, varsCall,
                   varsNotOrch>>

\* for cmd_char in ...: if self._poll_stop.is_set(): return
PollCmdCheck1 ==
    /\ ppc = "chk1"
    /\ ppc' = IF poll_stop THEN "done" ELSE "wait"
    /\ UNCHANGED <<pphase, pidx, slow_counter, varsMgr, varsCall,
                   varsNotOrch>>

PollCmdWait ==
    /\ ppc = "wait"
    /\ \E timedOut \in BOOLEAN : PausedWaitReturns(timedOut)
    /\ ppc' = "chk2"
    /\ UNCHANGED <<pphase, pidx, slow_counter, varsMgr, varsCall,
                   varsNotOrch>>

PollCmdCheck2 ==
    /\ ppc = "chk2"
    /\ ppc' = IF poll_stop THEN "done" ELSE "read"
    /\ UNCHANGED <<pphase, pidx, slow_counter, varsMgr, varsCall,
                   varsNotOrch>>

LoopLen == IF pphase = "fast" THEN Len(FastCmds) ELSE Len(SlowCmds)

\* the position after one _read_and_update of the loop
PollAdvance ==
    IF pidx < LoopLen
    THEN ppc' = "chk1" /\ pidx' = pidx + 1
    ELSE ppc' = (IF pphase = "fast" THEN "post_fast" ELSE "post_slow")
         /\ pidx' = 1

\* _read_and_update: no protocol, or the write raises on a closed port (the
\* exception is caught and None returned): nothing is sent
PollReadSkip ==
    /\ ppc = "read"
    /\ \/ ~protocol
       \/ protocol /\ conn_lock = "none" /\ ~port_open
    /\ PollAdvance
    /\ UNCHANGED <<pphase, slow_counter, varsMgr, varsCall,
                   varsNotOrch>>

\* _read_and_update -> send_command: take the transport lock, flush, write
PollSend ==
    /\ ppc = "read"
    /\ protocol /\ conn_lock = "none" /\ port_open
    /\ conn_lock' = "poll"
    /\ ppc' = "resp"
    /\ UNCHANGED <<pphase, pidx, slow_counter, poll_stop, poll_paused, cmd_lock,
                   port_open, protocol, connected, poll_thread, varsCall,
                   varsNotOrch>>

\* the response is read, the lock released, the state updated
PollResponse ==
    /\ ppc = "resp"
    /\ conn_lock' = "none"
    /\ PollAdvance
    /\ UNCHANGED <<pphase, slow_counter, poll_stop, poll_paused, cmd_lock,
                   port_open, protocol, connected, poll_thread, varsCall,
                   varsNotOrch>>

\* _compute_load_watts, _record_battery_history, slow_counter += 1
PollPostFast ==
    /\ ppc = "post_fast"
    /\ IF slow_counter + 1 >= SlowPollEvery
       THEN slow_counter' = 0 /\ pphase' = "slow" /\ ppc' = "chk1"
       ELSE slow_counter' = slow_counter + 1 /\ pphase' = pphase
            /\ ppc' = "cycle_wait"
    /\ UNCHANGED <<pidx, varsMgr, varsCall,
                   varsNotOrch>>

\* _check_temperature, _compute_battery_age
PollPostSlow ==
    /\ ppc = "post_slow"
    /\ ppc' = "cycle_wait"
    /\ pphase' = "fast"
    /\ UNCHANGED <<pidx, slow_counter, varsMgr, varsCall,
                   varsNotOrch>>

\* self._poll_stop.wait(timeout=2.0)
PollCycleWait ==
    /\ ppc = "cycle_wait"
    /\ ppc' = "top"
    /\ UNCHANGED <<pphase, pidx, slow_counter, varsMgr, varsCall,
                   varsNotOrch>>

PollNext ==
    \/ PollTop \/ PollWait0 \/ PollCheck0
    \/ PollCmdCheck1 \/ PollCmdWait \/ PollCmdCheck2
    \/ PollReadSkip \/ PollSend \/ PollResponse
    \/ PollPostFast \/ PollPostSlow \/ PollCycleWait

(***************************************************************************)
(* Caller operations.                                                      *)
(***************************************************************************)
Goto(t, where) == pc' = [pc EXCEPT ![t] = where]

\* a caller invokes an operation of its menu
Call(t, o) ==
    /\ pc[t] = "idle"
    /\ o \in Menu(t)
    /\ op' = [op EXCEPT ![t] = o]
    /\ Goto(t, CASE o = "connect" -> "c_open"
                 [] o = "start_polling" -> "sp"
                 [] o = "disconnect" -> "d_mark"
                 [] OTHER -> "pre")
    /\ UNCHANGED <<steps, success, exc, entered, resumes, varsMgr, varsPoll,
                   varsNotOrch>>

\* if not self._protocol: return "Not connected"
NotConnectedCheck(t) ==
    /\ pc[t] = "pre"
    /\ IF ~protocol
       THEN Goto(t, "ret") /\ success' = [success EXCEPT ![t] = "false"]
       ELSE Goto(t, IF op[t] \in LockingOps THEN "acq" ELSE "cmd")
            /\ UNCHANGED success
    /\ UNCHANGED <<op, steps, exc, entered, resumes, varsMgr, varsPoll,
                   varsNotOrch>>

\* the first protocol call of each operation's body
FirstBody(o) == IF o \in TwoStageOps THEN "w1" ELSE "cmd"

\* with self._cmd_lock:
AcquireCmdLock(t) ==
    /\ pc[t] = "acq"
    /\ cmd_lock = "none"
    /\ cmd_lock' = t
    /\ entered' = [entered EXCEPT ![t] = TRUE]
    /\ Goto(t, IF op[t] \in PausingOps THEN "pause" ELSE FirstBody(op[t]))
    /\ UNCHANGED <<op, steps, success, exc, resumes, poll_stop, poll_paused,
                   conn_lock, port_open, protocol, connected, poll_thread,
                   varsPoll,
                   varsNotOrch>>

\* _pause_polling
PausePolling(t) ==
    /\ pc[t] = "pause"
    /\ poll_paused' = FALSE
    /\ Goto(t, FirstBody(op[t]))
    /\ UNCHANGED <<op, steps, success, exc, entered, resumes, poll_stop,
                   cmd_lock, conn_lock, port_open, protocol, connected,
                   poll_thread, varsPoll,
                   varsNotOrch>>

\* where an exception raised by a protocol call leaves the operation: the
\* finally clause of a guarded operation, the end of the with block of
\* prog_adjust (it catches ValueError only), the caller of get_test_result
ExcTarget(o) ==
    IF o = "get_test_result" THEN "ret"
    ELSE IF o = "prog_adjust" THEN "rel" ELSE "fin"

\* A protocol call that takes the transport lock and writes: it raises
\* AttributeError when _protocol is None and ConnectionError when the port is
\* not open (SerialConnection.write); otherwise the command is on the wire
\* and the caller holds the lock (hold) or has released it again.
ProtocolWrite(t, sent, hold) ==
    /\ ~protocol \/ conn_lock = "none"
    /\ IF protocol /\ port_open
       THEN /\ Goto(t, sent)
            /\ conn_lock' = IF hold THEN t ELSE "none"
            /\ UNCHANGED exc
       ELSE /\ Goto(t, ExcTarget(op[t]))
            /\ exc' = [exc EXCEPT ![t] = TRUE]
            /\ UNCHANGED conn_lock
    /\ UNCHANGED <<op, steps, success, entered, resumes, poll_stop, poll_paused,
                   cmd_lock, port_open, protocol, connected, poll_thread,
                   varsPoll,
                   varsNotOrch>>

\* send_command / exit_prog_mode / send_prog_adjust: flush, write
SendCommand(t) ==
    /\ pc[t] = "cmd"
    /\ ProtocolWrite(t, "resp", TRUE)

Responses == {"ok", "rej", "none"}

\* the response of a single-command operation is read and judged
CommandResponse(t) ==
    /\ pc[t] = "resp"
    /\ op[t] # "change_setting"
    /\ conn_lock' = "none"
    /\ \E r \in Responses :
         success' = [success EXCEPT ![t] =
                        IF op[t] = "exit_prog_mode" \/ r = "ok"
                        THEN "true" ELSE "false"]
    /\ Goto(t, CASE op[t] = "get_test_result" -> "ret"
                 [] op[t] = "prog_adjust" -> "rel"
                 [] OTHER -> "fin")
    /\ UNCHANGED <<op, steps, exc, entered, resumes, poll_stop, poll_paused,
                   cmd_lock, port_open, protocol, connected, poll_thread,
                   varsPoll,
                   varsNotOrch>>

\* _execute_setting_change: the current value is read; no response, already
\* at the target, target not in the cycle, or 1..MaxEditSteps edit steps
ReadCurrentResponse(t) ==
    /\ pc[t] = "resp"
    /\ op[t] = "change_setting"
    /\ conn_lock' = "none"
    /\ \/ /\ \E ok \in {"true", "false"} :
               success' = [success EXCEPT ![t] = ok]
          /\ Goto(t, "fin")
          /\ UNCHANGED steps
       \/ /\ \E n \in 1..MaxEditSteps : steps' = [steps EXCEPT ![t] = n]
          /\ Goto(t, "edit")
          /\ UNCHANGED success
    /\ UNCHANGED <<op, exc, entered, resumes, poll_stop, poll_paused, cmd_lock,
                   port_open, protocol, connected, poll_thread, varsPoll,
                   varsNotOrch>>

\* send_setting_edit: lock, flush, write the customizing command
SettingEditSend(t) ==
    /\ pc[t] = "edit"
    /\ ProtocolWrite(t, "edit_resp", TRUE)

\* ... read the current value, write '-', read the edit response, unlock
SettingEditResponse(t) ==
    /\ pc[t] = "edit_resp"
    /\ conn_lock' = "none"
    /\ Goto(t, "settle")
    /\ UNCHANGED <<op, steps, success, exc, entered, resumes, poll_stop,
                   poll_paused, cmd_lock, port_open, protocol, connected,
                   poll_thread, varsPoll,
                   varsNotOrch>>

\* ... sleep EEPROM_WRITE_DELAY; the caller's loop judges the edit response
SettingEditSettle(t) ==
    /\ pc[t] = "settle"
    /\ \E r \in Responses :
         IF r # "ok"
         THEN /\ success' = [success EXCEPT ![t] = "false"]
              /\ Goto(t, "fin")
              /\ UNCHANGED steps
         ELSE /\ steps' = [steps EXCEPT ![t] = steps[t] - 1]
              /\ Goto(t, IF steps[t] = 1 THEN "verify" ELSE "edit")
              /\ UNCHANGED success
    /\ UNCHANGED <<op, exc, entered, resumes, varsMgr, varsPoll,
                   varsNotOrch>>

\* verify = send_command(cmd)
VerifySend(t) ==
    /\ pc[t] = "verify"
    /\ ProtocolWrite(t, "verify_resp", TRUE)

VerifyResponse(t) ==
    /\ pc[t] = "verify_resp"
    /\ conn_lock' = "none"
    /\ \E ok \in {"true", "false"} : success' = [success EXCEPT ![t] = ok]
    /\ Goto(t, "fin")
    /\ UNCHANGED <<op, steps, exc, entered, resumes, poll_stop, poll_paused,
                   cmd_lock, port_open, protocol, connected, poll_thread,
                   varsPoll,
                   varsNotOrch>>

\* send_timed_command / enter_prog_mode (protocol): the first write, under
\* the transport lock, which is released before the delay
FirstStageWrite(t) ==
    /\ pc[t] = "w1"
    /\ ProtocolWrite(t, "gap", FALSE)

\* time.sleep(TIMED_CMD_DELAY) / time.sleep(PROG_MODE_DELAY)
StageDelay(t) ==
    /\ pc[t] = "gap"
    /\ Goto(t, "w2")
    /\ UNCHANGED <<op, steps, success, exc, entered, resumes, varsMgr, varsPoll,
                   varsNotOrch>>

\* the second write, under the transport lock taken again
SecondStageWrite(t) ==
    /\ pc[t] = "w2"
    /\ ProtocolWrite(t, "resp2", TRUE)

SecondStageResponse(t) ==
    /\ pc[t] = "resp2"
    /\ conn_lock' = "none"
    /\ \E ok \in {"true", "false"} : success' = [success EXCEPT ![t] = ok]
    /\ Goto(t, "fin")
    /\ UNCHANGED <<op, steps, exc, entered, resumes, poll_stop, poll_paused,
                   cmd_lock, port_open, protocol, connected, poll_thread,
                   varsPoll,
                   varsNotOrch>>

\* _resume_polling, as called by the finally clause of caller t
\* a finally clause that leaves the gate as it is
ResumePollingForgotten(t) ==
    /\ UNCHANGED poll_paused
    /\ resumes' = [resumes EXCEPT ![t] = resumes[t] + 1]

ResumePolling(t) ==
    /\ poll_paused' = TRUE
    /\ resumes' = [resumes EXCEPT ![t] = resumes[t] + 1]

\* enter_prog_mode:  finally: if not success: self._resume_polling()
\* 'success' is unbound when the protocol call raised: evaluating it raises
\* UnboundLocalError and the gate is left as it is
EnterProgFinally(t) ==
    IF success[t] = "unbound"
    THEN exc' = [exc EXCEPT ![t] = TRUE] /\ UNCHANGED <<poll_paused, resumes>>
    ELSE IF success[t] = "false"
         THEN ResumePolling(t) /\ UNCHANGED exc
         ELSE UNCHANGED <<poll_paused, resumes, exc>>

\* the finally clause of a guarded operation
Finally(t) ==
    /\ pc[t] = "fin"
    /\ IF op[t] = "enter_prog_mode"
       THEN EnterProgFinally(t)
       ELSE ResumePolling(t) /\ UNCHANGED exc
    /\ Goto(t, "rel")
    /\ UNCHANGED <<op, steps, success, entered, poll_stop, cmd_lock, conn_lock,
                   port_open, protocol, connected, poll_thread, varsPoll,
                   varsNotOrch>>

\* the end of the with self._cmd_lock block
ReleaseCmdLock(t) ==
    /\ pc[t] = "rel"
    /\ cmd_lock' = "none"
    /\ Goto(t, "ret")
    /\ UNCHANGED <<op, steps, success, exc, entered, resumes, poll_stop,
                   poll_paused, conn_lock, port_open, protocol, connected,
                   poll_thread, varsPoll,
                   varsNotOrch>>

\* the operation has returned (or raised) to its caller
Return(t) ==
    /\ pc[t] = "ret"
    /\ op' = [op EXCEPT ![t] = "none"]
    /\ pc' = [pc EXCEPT ![t] = "idle"]
    /\ steps' = [steps EXCEPT ![t] = 0]
    /\ success' = [success EXCEPT ![t] = "unbound"]
    /\ exc' = [exc EXCEPT ![t] = FALSE]
    /\ entered' = [entered EXCEPT ![t] = FALSE]
    /\ resumes' = [resumes EXCEPT ![t] = 0]
    /\ UNCHANGED <<varsMgr, varsPoll,
                   varsNotOrch>>

(***************************************************************************)
(* connect                                                                 *)
(***************************************************************************)
\* self._conn.open(port) under the transport lock, then the protocol handle
\* is created; open raises when every attempt failed
ConnectOpen(t) ==
    /\ pc[t] = "c_open"
    /\ conn_lock = "none"
    /\ \E opened \in BOOLEAN :
         IF opened
         THEN port_open' = TRUE /\ protocol' = TRUE /\ Goto(t, "c_hs")
              /\ UNCHANGED exc
         ELSE port_open' = FALSE /\ UNCHANGED protocol /\ Goto(t, "c_exc")
              /\ exc' = [exc EXCEPT ![t] = TRUE]
    /\ UNCHANGED <<op, steps, success, entered, resumes, poll_stop, poll_paused,
                   cmd_lock, conn_lock, connected, poll_thread, varsPoll,
                   varsNotOrch>>

\* except Exception: state.update(connected=False, ...); self._conn.close()
ConnectExcept(t) ==
    /\ pc[t] = "c_exc"
    /\ conn_lock = "none"
    /\ connected' = FALSE
    /\ port_open' = FALSE
    /\ success' = [success EXCEPT ![t] = "false"]
    /\ exc' = [exc EXCEPT ![t] = FALSE]
    /\ Goto(t, "ret")
    /\ UNCHANGED <<op, steps, entered, resumes, poll_stop, poll_paused, cmd_lock,
                   conn_lock, protocol, poll_thread, varsPoll,
                   varsNotOrch>>

\* enter_smart_mode: lock, flush, write 'Y'
HandshakeSend(t) ==
    /\ pc[t] = "c_hs"
    /\ ProtocolWrite(t, "c_hs_resp", TRUE)

\* ... the response is read; 'SM' or anything else
HandshakeResponse(t) ==
    /\ pc[t] = "c_hs_resp"
    /\ conn_lock' = "none"
    /\ \E sm \in BOOLEAN : Goto(t, IF sm THEN "c_mark" ELSE "c_refused")
    /\ UNCHANGED <<op, steps, success, exc, entered, resumes, poll_stop,
                   poll_paused, cmd_lock, port_open, protocol, connected,
                   poll_thread, varsPoll,
                   varsNotOrch>>

\* self._conn.close(); state.update(connected=False, ...); return False
HandshakeRefused(t) ==
    /\ pc[t] = "c_refused"
    /\ conn_lock = "none"
    /\ port_open' = FALSE
    /\ connected' = FALSE
    /\ success' = [success EXCEPT ![t] = "false"]
    /\ Goto(t, "ret")
    /\ UNCHANGED <<op, steps, exc, entered, resumes, poll_stop, poll_paused,
                   cmd_lock, conn_lock, protocol, poll_thread, varsPoll,
                   varsNotOrch>>

\* state.update(connected=True, ...); then _read_initial_values
ConnectMark(t) ==
    /\ pc[t] = "c_mark"
    /\ connected' = TRUE
    /\ steps' = [steps EXCEPT ![t] = MaxOnceCmds]
    /\ Goto(t, "c_once")
    /\ UNCHANGED <<op, success, exc, entered, resumes, poll_stop, poll_paused,
                   cmd_lock, conn_lock, port_open, protocol, poll_thread,
                   varsPoll,
                   varsNotOrch>>

\* after one _read_and_update of _read_initial_values
OnceAdvance(t) ==
    /\ steps' = [steps EXCEPT ![t] = steps[t] - 1]
    /\ IF steps[t] = 1
       THEN Goto(t, "ret") /\ success' = [success EXCEPT ![t] = "true"]
       ELSE Goto(t, "c_once") /\ UNCHANGED success

\* _read_and_update(cmd_char) of _read_initial_values
OnceSend(t) ==
    /\ pc[t] = "c_once"
    /\ ~protocol \/ conn_lock = "none"
    /\ IF protocol /\ port_open
       THEN conn_lock' = t /\ Goto(t, "c_once_resp") /\ UNCHANGED <<steps, success>>
       ELSE OnceAdvance(t) /\ UNCHANGED conn_lock
    /\ UNCHANGED <<op, exc, entered, resumes, poll_stop, poll_paused, cmd_lock,
                   port_open, protocol, connected, poll_thread, varsPoll,
                   varsNotOrch>>

OnceResponse(t) ==
    /\ pc[t] = "c_once_resp"
    /\ conn_lock' = "none"
    /\ OnceAdvance(t)
    /\ UNCHANGED <<op, exc, entered, resumes, poll_stop, poll_paused, cmd_lock,
                   port_open, protocol, connected, poll_thread, varsPoll,
                   varsNotOrch>>

(***************************************************************************)
(* start_polling / stop_polling / disconnect                               *)
(***************************************************************************)
\* start_polling: return if the referenced worker is alive; else clear the
\* stop flag, open the gate, create and start the worker.  The model follows
\* one worker: the call waits while a worker that outlived its join runs.
StartPolling(t) ==
    /\ pc[t] = "sp"
    /\ IF poll_thread /\ PollerAlive
       THEN UNCHANGED <<poll_stop, poll_paused, poll_thread, varsPoll>>
       ELSE /\ ~PollerAlive
            /\ poll_stop' = FALSE
            /\ poll_paused' = TRUE
            /\ poll_thread' = TRUE
            /\ ppc' = "top"
            /\ pphase' = "fast"
            /\ pidx' = 1
            /\ slow_counter' = 0
    /\ Goto(t, "ret")
    /\ UNCHANGED <<op, steps, success, exc, entered, resumes, cmd_lock,
                   conn_lock, port_open, protocol, connected,
                   varsNotOrch>>

\* disconnect, step 1: state.update(connected=False, smart_mode=False)
DisconnectMark(t) ==
    /\ pc[t] = "d_mark"
    /\ connected' = FALSE
    /\ Goto(t, "d_stop")
    /\ UNCHANGED <<op, steps, success, exc, entered, resumes, poll_stop,
                   poll_paused, cmd_lock, conn_lock, port_open, protocol,
                   poll_thread, varsPoll,
                   varsNotOrch>>

\* stop_polling: self._poll_stop.set(); self._poll_paused.set()
StopSignals(t) ==
    /\ pc[t] = "d_stop"
    /\ poll_stop' = TRUE
    /\ poll_paused' = TRUE
    /\ Goto(t, IF poll_thread THEN "d_join" ELSE "d_close")
    /\ UNCHANGED <<op, steps, success, exc, entered, resumes, cmd_lock,
                   conn_lock, port_open, protocol, connected, poll_thread,
                   varsPoll,
                   varsNotOrch>>

\* the worker is inside a transport exchange: blocked on the transport lock
\* another thread holds, or holding it while it writes and reads
PollerInTransport ==
    \/ ppc = "resp"
    \/ ppc = "read" /\ protocol /\ conn_lock # "none"

\* Thread.join(timeout=5.0): returns when the worker has terminated, or after
\* the timeout while the worker is still inside a transport exchange (every
\* other wait of the worker ends at once when the stop flag is set)
JoinReturns(timedOut) ==
    IF timedOut THEN PollerAlive /\ PollerInTransport ELSE ~PollerAlive

\* stop_polling: self._poll_thread.join(timeout=5.0); self._poll_thread = None
JoinWorker(t) ==
    /\ pc[t] = "d_join"
    /\ \E timedOut \in BOOLEAN : JoinReturns(timedOut)
    /\ poll_thread' = FALSE
    /\ Goto(t, "d_close")
    /\ UNCHANGED <<op, steps, success, exc, entered, resumes, poll_stop,
                   poll_paused, cmd_lock, conn_lock, port_open, protocol,
                   connected, varsPoll,
                   varsNotOrch>>

\* disconnect, step 3: self._conn.close() (under the transport lock)
CloseTransport(t) ==
    /\ pc[t] = "d_close"
    /\ conn_lock = "none"
    /\ port_open' = FALSE
    /\ Goto(t, "d_drop")
    /\ UNCHANGED <<op, steps, success, exc, entered, resumes, poll_stop,
                   poll_paused, cmd_lock, conn_lock, protocol, connected,
                   poll_thread, varsPoll,
                   varsNotOrch>>

\* disconnect, step 4: self._protocol = None
DropProtocol(t) ==
    /\ pc[t] = "d_drop"
    /\ protocol' = FALSE
    /\ Goto(t, "ret")
    /\ UNCHANGED <<op, steps, success, exc, entered, resumes, poll_stop,
                   poll_paused, cmd_lock, conn_lock, port_open, connected,
                   poll_thread, varsPoll,
                   varsNotOrch>>

CallerNext(t) ==
    \/ \E o \in Menu(t) : Call(t, o)
    \/ NotConnectedCheck(t) \/ AcquireCmdLock(t) \/ PausePolling(t)
    \/ SendCommand(t) \/ CommandResponse(t) \/ ReadCurrentResponse(t)
    \/ SettingEditSend(t) \/ SettingEditResponse(t) \/ SettingEditSettle(t)
    \/ VerifySend(t) \/ VerifyResponse(t)
    \/ FirstStageWrite(t) \/ StageDelay(t)
    \/ SecondStageWrite(t) \/ SecondStageResponse(t)
    \/ Finally(t) \/ ReleaseCmdLock(t) \/ Return(t)
    \/ ConnectOpen(t) \/ ConnectExcept(t)
    \/ HandshakeSend(t) \/ HandshakeResponse(t) \/ HandshakeRefused(t)
    \/ ConnectMark(t) \/ OnceSend(t) \/ OnceResponse(t)
    \/ StartPolling(t)
    \/ DisconnectMark(t) \/ StopSignals(t) \/ JoinWorker(t)
    \/ CloseTransport(t) \/ DropProtocol(t)

Init == InitMgr /\ InitState /\ InitEdits /\ InitPacks /\ InitChange /\ InitRead /\ InitCal /\ InitCalOps /\ InitCmds /\ InitPollErr /\ InitWire /\ InitTemp /\ InitWorkers /\ InitOpen

Next == PollNext \/ \E t \in Callers : CallerNext(t)

Spec == Init /\ [][Next]_vars

\* UPSState on its own: a thread connecting and disconnecting, and a reader
SpecState == Init /\ [][StateNext]_vars

\* the history buffers: the poll worker and a reader
SpecHistory == Init /\ [][HistoryNext]_vars

\* count_edits_needed applied to every input
InitEditsSpec == InitMgr /\ InitState /\ InitEditsInputs /\ InitPacks /\ InitChange /\ InitRead /\ InitCal /\ InitCalOps /\ InitCmds /\ InitPollErr /\ InitWire /\ InitTemp /\ InitWorkers /\ InitOpen
SpecEdits == InitEditsSpec /\ [][CountEdits]_vars

\* the battery-pack plan for every input
InitPacksSpec == InitMgr /\ InitState /\ InitEdits /\ InitPacksInputs /\ InitChange /\ InitRead /\ InitCal /\ InitCalOps /\ InitCmds /\ InitPollErr /\ InitWire /\ InitTemp /\ InitWorkers /\ InitOpen
SpecPacks == InitPacksSpec /\ [][PlanPacks]_vars

\* change_setting called again and again on one setting of one device
InitChangeSpec == InitMgr /\ InitState /\ InitEdits /\ InitPacks /\ InitChangeInputs /\ InitRead /\ InitCal /\ InitCalOps /\ InitCmds /\ InitPollErr /\ InitWire /\ InitTemp /\ InitWorkers /\ InitOpen
SpecChange == InitChangeSpec /\ [][ChangeNext]_vars

\* _read_response_locked on every line content
InitReadSpec == InitMgr /\ InitState /\ InitEdits /\ InitPacks /\ InitChange /\ InitReadInputs /\ InitCal /\ InitCalOps /\ InitCmds /\ InitPollErr /\ InitWire /\ InitTemp /\ InitWorkers /\ InitOpen
SpecRead == InitReadSpec /\ [][ReadNext]_vars

\* a CalibrationManager on its own
SpecCal == Init /\ [][CalNext]_vars

\* every command operation on every answer of the device
InitCmdsSpec == InitMgr /\ InitState /\ InitEdits /\ InitPacks /\ InitChange /\ InitRead /\ InitCal /\ InitCalOps /\ InitCmdsInputs /\ InitPollErr /\ InitWire /\ InitTemp /\ InitWorkers /\ InitOpen
SpecCmds == InitCmdsSpec /\ [][CmdsNext]_vars

\* the poll worker with reads that fail
SpecPollErr == Init /\ [][PollErrNext]_vars

\* the protocol methods of three threads on one transport
SpecWire == Init /\ [][WireNext]_vars

\* the temperature check on every temperature, threshold and flag
SpecTemp == Init /\ [][TempNext]_vars

\* the lifecycle methods called in any order, and the workers they create
SpecWorkers == Init /\ [][WorkersNext]_vars

\* ... where every running worker, the method being run and a paused user
\* command go on
SpecWorkersLive ==
    /\ SpecWorkers
    /\ \A w \in Workers : WF_vars(WorkerStep(w))
    /\ WF_vars(LifecycleStep)
    /\ WF_vars(UserResumes)

\* open() called up to MaxOpens times while another thread closes
SpecOpen == Init /\ [][OpenNext]_vars

\* ... where a thread inside open() goes on
SpecOpenLive == SpecOpen /\ WF_vars(OpenStep)

\* start_calibration and abort_calibration called by two threads
InitCalOpsSpec == InitMgr /\ InitState /\ InitEdits /\ InitPacks /\ InitChange /\ InitRead /\ InitCal /\ InitCalOpsInputs /\ InitCmds /\ InitPollErr /\ InitWire /\ InitTemp /\ InitWorkers /\ InitOpen
SpecCalOps == InitCalOpsSpec /\ [][CalOpsNext]_vars

\* ... where every thread that has begun a step finishes it, and the poll
\* worker, the device and the display keep running
SpecCalOpsLive ==
    /\ SpecCalOps
    /\ \A t \in Callers : WF_vars(CalStep(t))
    /\ WF_vars(PollBattery) /\ WF_vars(DeviceStops) /\ WF_vars(DisplayRefresh)

(***************************************************************************)
(* Claims about the orchestrator (checked under Spec).                     *)
(***************************************************************************)
\* caller u, running a command operation, puts a command on the wire in
\* this step
CallerSends(u) ==
    /\ pc'[u] # pc[u]
    /\ pc'[u] \in {"resp", "gap", "edit_resp", "verify_resp", "resp2"}

\* caller t has sent the first command of a multi-command sequence and not
\* yet the last one
MidSequence(t) ==
    pc[t] \in {"edit", "edit_resp", "settle", "verify", "gap", "w2"}

\* C1: the poll worker never sends a device command while a user operation
\* holds the command mutex _cmd_lock.
C1_PollerExcludedByCmdLock ==
    [][PollSend => cmd_lock = "none"]_vars

\* C2: no device command of one caller's operation is sent between the first
\* and the last device command of another caller's operation.
C2_OneSequenceInFlight ==
    [][\A t, u \in Callers :
          (t # u /\ CallerSends(u)) => ~MidSequence(t)]_vars

\* C3: between the two writes of send_timed_command / enter_prog_mode no
\* other thread, poll worker or caller, uses the transport.
C3_TwoStageAtomic ==
    [][\A t \in Callers :
          pc[t] = "gap" =>
             /\ ~PollSend
             /\ \A u \in Callers \ {t} : ~CallerSends(u)]_vars

\* C4: an enter_prog_mode that took the mutex and did not succeed (failure
\* or exception) has resumed the poller exactly once when it returns; one
\* that succeeded has not, and exit_prog_mode resumes exactly once on its
\* normal and its exceptional exit.
C4_ProgModeResumesOnce ==
    \A t \in Callers :
       (pc[t] = "ret" /\ entered[t]) =>
          /\ op[t] = "enter_prog_mode" =>
                resumes[t] = (IF success[t] = "true" THEN 0 ELSE 1)
          /\ op[t] = "exit_prog_mode" => resumes[t] = 1

\* C5: when disconnect has closed the transport the poll worker has
\* terminated, and disconnect returns with connected = false.
C5_JoinedBeforeClose ==
    \A t \in Callers :
       op[t] = "disconnect" =>
          /\ pc[t] = "d_drop" => ~PollerAlive
          /\ pc[t] = "ret" => ~connected

\* disconnect has set connected = false and has not returned yet
DisconnectMarked ==
    \E t \in Callers :
       op[t] = "disconnect" /\ pc[t] \in {"d_stop", "d_join", "d_close",
                                          "d_drop", "ret"}

\* C6: once disconnect has set connected = false the poll worker sends no
\* further device command: a poll iteration already in flight observes the
\* flag and short-circuits before its next read, that is, the worker's check
\* before a read does not let it through to the read.
C6_NoReadAfterDisconnectMark ==
    [][DisconnectMarked => ~(PollCmdCheck2 /\ ppc' = "read")]_vars

(***************************************************************************)
(* Claims about UPSState (checked under SpecState and SpecHistory).        *)
(***************************************************************************)
\* C7: a snapshot taken concurrently with update(k1=v1, ..., kn=vn) holds all
\* of the n new values or none of them: what the reader gets in the fields
\* update() manages is the state some completed sequence of updates left,
\* never a partially applied one; and every update stamps last_update.
C7_SnapshotAtomic ==
    /\ spc["r"] \in {"r_copy", "r_hold"} =>
          \A f \in UpdateFields \cap DOMAIN snap : snap[f] = snap_base[f]
    /\ \A t \in StateThreads : spc[t] = "u_rel" => st["last_update"] = Now(t)

\* the reader holds a snapshot showing a whole connect update, taken while
\* the next update was already called and waiting for the lock
C7_Witness ==
    /\ spc["r"] = "r_hold"
    /\ spc["w"] = "u_acq"
    /\ snap["connected"] /\ snap["smart_mode"] /\ snap["port"] = "COM3"
    /\ snap["last_update"] = [by |-> "w", n |-> 1]

\* C8: no mutation made after snapshot() has returned changes the contents
\* of the snapshot handed to the reader: the history lists the reader finds
\* in it stay what they were when snapshot() returned.
C8_SnapshotIndependent ==
    spc["r"] = "r_hold" => Contents(snap) = snap_seen

\* C9: in every reachable state, and in every state a reader can observe,
\* battery_history and temperature_history hold no more samples than their
\* caps; a sample added to a full buffer drops the oldest and keeps the
\* others in order (the samples are numbered in the order they were added).
C9_HistoryBounded ==
    LET InOrder(l) == \A i \in 1..(Len(l) - 1) : l[i + 1] = l[i] + 1
        Ok(l, cap) == Len(l) <= cap /\ InOrder(l)
    IN  /\ Ok(heap[st["battery_history"]], BatteryHistoryCap)
        /\ Ok(heap[st["temperature_history"]], TemperatureHistoryCap)
        /\ spc["r"] = "r_hold" =>
              /\ Ok(heap[snap["battery_history"]], BatteryHistoryCap)
              /\ Ok(heap[snap["temperature_history"]], TemperatureHistoryCap)

(***************************************************************************)
(* Claims about count_edits_needed (checked under SpecEdits).              *)
(***************************************************************************)
\* the value the cycle shows s edits after position i
After(values, i, s) == values[((i + s) % Len(values)) + 1]

Occurrences(values, x) == {i \in 1..Len(values) : values[i] = x}

Up(a, b) == IF b >= a THEN b - a ELSE b - a + PacksModulus

RECURSIVE EditSteps(_, _)
EditSteps(cmd, n) == IF n = 0 THEN <<>> ELSE <<cmd, "-">> \o EditSteps(cmd, n - 1)

\* how many times x was written
Written(x) == Cardinality({i \in 1..Len(c_sent) : c_sent[i] = x})

\* C13: change_setting("battery_packs", target) goes to the bidirectional
\* battery-pack path: from device value "000" to target "005" it sends
\* exactly 5 increment ('+') adjustments, the device ends at "005", the call
\* returns success and state.battery_packs is "005".
C13_PacksIncrement ==
    (/\ c_pc = "ret"
     /\ c_setting = "battery_packs"
     /\ c_old = "000" /\ c_target = "005"
     /\ ~c_faulted) =>
       /\ Written("+") = 5
       /\ DeviceValue = "005"
       /\ c_result.ok
       /\ c_field = "005"

\* the call is about a cyclic setting on a device whose cycle is the
\* catalogued one, the current value was read and differs from the target,
\* which is in the cycle, and the device accepted and answered everything
CyclicChange ==
    /\ c_pc = "ret"
    /\ c_setting \in SettingNames
    /\ d_cycle # <<>>
    /\ d_cycle = SETTINGS[c_setting].allowed_values
    /\ c_target \in Range(d_cycle)
    /\ Len(c_sent) > 0
    /\ c_old # Strip(c_target)
    /\ ~c_faulted

\* C18: for a cyclic setting whose device cycle equals the catalogued list
\* and a target different from the device's current value, change_setting
\* sends exactly count_edits_needed(current, target) edit steps, each a
\* customizing command immediately followed by '-', then re-reads the value;
\* it returns success and sets the state field to the target.
C18_ExactEditSteps ==
    CyclicChange =>
       /\ c_sent = <<Cmd>> \o EditSteps(Cmd, count_edits_needed(c_setting, c_old, c_target))
                          \o <<Cmd>>
       /\ c_result.ok
       /\ c_field = c_target

\* an edit step of the edit cycle was answered with a rejection code
EditRejected ==
    /\ c_pc = "ret"
    /\ c_setting \in SettingNames
    /\ ~SETTINGS[c_setting].direct_edit
    /\ Strip(c_resp) \in {"NA", "NO"}

\* the change stopped at the rejected step, step c_i + 1: nothing was sent
\* after it, the call failed and the state field is as it was
AbortedAtStep ==
    /\ c_sent = <<Cmd>> \o EditSteps(Cmd, c_i + 1)
    /\ ~c_result.ok
    /\ c_field = c_field0

\* C19 as stated: if edit step N of T returns a rejection code the change
\* aborts at once, no further edit step or device command is sent, the
\* result is a failure whose message reports step N/T, and the state field
\* is left unmodified.
C19_AbortReportsStep ==
    EditRejected =>
       /\ AbortedAtStep
       /\ c_result.step = c_i + 1 /\ c_result.of = c_steps

\* C19 amended: if edit step N of T returns a rejection code the change
\* aborts at once, no further edit step or device command is sent, the
\* result is a failure and the state field is left unmodified; the message
\* reports step N/T when the code is NA, and for NO it names the DIP
\* switches and no step.
C19_AbortOnRejection ==
    EditRejected =>
       /\ AbortedAtStep
       /\ Strip(c_resp) = "NA" =>
             /\ c_result.msg = "Edit rejected by UPS (NA) at step"
             /\ c_result.step = c_i + 1 /\ c_result.of = c_steps
       /\ Strip(c_resp) = "NO" =>
             /\ c_result.msg = "Edit disallowed - check DIP switch positions"
             /\ c_result.step = 0

\* step 2 of 3 was rejected with NA
C19_Witness ==
    /\ EditRejected
    /\ Strip(c_resp) = "NA"
    /\ c_steps = 3 /\ c_result.step = 2
    /\ Len(c_sent) = 5

\* C20 amended: when all edit steps were accepted but the final read-back
\* differs from the target, the result is a verification failure and the
\* state field holds the value observed from the device; on no path of the
\* edit cycle is the state field set to a value the final read-back did not
\* show (the direct text input has no read-back and stores the target on OK).
C20_VerifiedOrObserved ==
    (/\ c_pc = "ret"
     /\ c_setting \in SettingNames
     /\ ~SETTINGS[c_setting].direct_edit) =>
       /\ (c_verify \notin {"", NoResponse} /\ Strip(c_verify) # c_target) =>
             /\ ~c_result.ok
             /\ c_result.msg = "Verification failed"
             /\ c_field = Strip(c_verify)
       /\ c_field # c_field0 =>
             /\ c_verify \notin {"", NoResponse}
             /\ c_field = Strip(c_verify)
       /\ (c_result.ok /\ c_result.msg = "OK") =>
             /\ Strip(c_verify) = c_target
             /\ c_field = c_target

\* every edit step was accepted and the read-back shows another value than
\* the target; the state field has taken the value read back
C20_Witness ==
    /\ c_pc = "ret"
    /\ c_setting = "sensitivity"
    /\ ~c_faulted
    /\ c_i = c_steps /\ c_steps > 0
    /\ c_verify \notin {"", NoResponse}
    /\ Strip(c_verify) # c_target
    /\ c_field = Strip(c_verify)
    /\ c_field # c_field0

\* C20 as stated, over every path of change_setting: a verification
\* mismatch is a failure that stores the observed value, and the state field
\* is never set to a value that the final read-back did not show.
C20_NoUnconfirmedTarget ==
    c_pc = "ret" =>
       /\ (c_verify \notin {"", NoResponse} /\ Strip(c_verify) # c_target) =>
             /\ ~c_result.ok
             /\ c_field = Strip(c_verify)
       /\ c_field # c_field0 =>
             /\ c_verify \notin {"", NoResponse}
             /\ c_field = Strip(c_verify)

(***************************************************************************)
(* Claims about read_response (checked under SpecRead).                    *)
(***************************************************************************)
AlertsOf(bytes) == SelectSeq(bytes, LAMBDA b : b \in ALERT_CHARS)
NonAlertsOf(bytes) == SelectSeq(bytes, LAMBDA b : b \notin ALERT_CHARS)

\* the call returned on a terminator: what it read is a text, without CR or
\* LF, then CR LF, with alert bytes anywhere among them
ReadTerminated ==
    /\ r_pc = "returned"
    /\ r_how = "terminator"
    /\ \A i \in 1..(Len(NonAlertsOf(r_seen)) - 2) :
          NonAlertsOf(r_seen)[i] \notin {"CR", "LF"}

\* the text of the stream the call read: no alert bytes, no CR LF
TextRead == SubSeq(NonAlertsOf(r_seen), 1, Len(NonAlertsOf(r_seen)) - 2)

Mentions(s, part) ==
    \E i \in 1..(Len(s) - Len(part) + 1) : SubSeq(s, i, i + Len(part) - 1) = part

\* C16: can_start(battery%) returns (true, "") if and only if the machine is
\* IDLE and battery% >= 100; in every other case it returns false with a
\* non-empty reason, and for an IDLE machine with battery% < 100 the reason
\* mentions "100%"; can_start never changes the machine state.
C16_CanStartGate ==
    /\ [](cal_last = "can_start" =>
            /\ cs_result = <<TRUE, "">> <=> (cal_state = "IDLE" /\ cs_pct >= 100 * 10)
            /\ cs_result # <<TRUE, "">> => (cs_result[1] = FALSE /\ cs_result[2] # "")
            /\ (cal_state = "IDLE" /\ cs_pct < 100 * 10) => Mentions(cs_result[2], "100%"))
    /\ [][cal_last' = "can_start" =>
            UNCHANGED <<cal_state, start_battery_pct, current_battery_pct,
                        error_message>>]_vars

\* can_start(87.0) on an IDLE machine
C16_Witness ==
    /\ cal_last = "can_start"
    /\ cal_state = "IDLE"
    /\ cs_pct = 870
    /\ cs_result = <<FALSE, "Battery must be at 100% to calibrate (currently 87.0%)">>

\* C17: progress_pct is 0 whenever the state is not RUNNING; in RUNNING it
\* equals ((start% - current%) / 75) * 100 clamped to [0, 100]: 0 when
\* current% = start%, 100 when current% = start% - 75, 0 when current% >
\* start% and 100 when current% < start% - 75.
C17_ProgressClamped ==
    LET used == start_battery_pct - current_battery_pct
        p == progress_pct
    IN  /\ p.den > 0
        /\ cal_state # "RUNNING" => p.num = 0
        /\ cal_state = "RUNNING" =>
              /\ (0 <= used /\ used <= 75 * 10) => p.num * (75 * 10) = used * 100 * p.den
              /\ used < 0 => p.num = 0
              /\ used > 75 * 10 => p.num = 100 * p.den
              /\ used = 0 => p.num = 0
              /\ used = 75 * 10 => p.num = 100 * p.den

\* a calibration started at 100% has run the battery below 25%
C17_Witness ==
    /\ cal_state = "RUNNING"
    /\ start_battery_pct = 1000
    /\ current_battery_pct = 249
    /\ progress_pct.num = 100 * progress_pct.den

\* C21: change_setting on a cyclic setting whose device value already equals
\* the target is a no-op: once the current value is read it sends no
\* edit-advance command, leaves the device value unchanged and returns
\* success with a message containing "Already set".
C21_AlreadySetNoOp ==
    [][(/\ c_pc = "plan"
        /\ d_cycle # <<>>
        /\ DeviceValue = c_target) =>
          /\ c_pc' = "ret"
          /\ c_result'.ok
          /\ c_result'.msg = "Already set to target value"
          /\ c_sent' = c_sent
          /\ DeviceValue' = DeviceValue]_vars

\* C22: change_setting reaches any target value that exists in the device's
\* actual edit cycle, also when the device's cycle differs from the
\* catalogued list (device cycle 08/11/14/17 for low_battery_warning, target
\* "14"): it returns success and the state field equals the target.
C22_ReachesDeviceValue ==
    (/\ c_pc = "ret"
     /\ d_cycle # <<>>
     /\ c_target \in Range(d_cycle)
     /\ Len(c_sent) > 0
     /\ c_old # Strip(c_target)
     /\ ~c_faulted) =>
       /\ c_result.ok
       /\ c_field = c_target

\* the call is about a target that the device's edit cycle does not contain,
\* and the device accepted and answered everything
TargetNotOnDevice ==
    /\ c_pc = "ret"
    /\ d_cycle # <<>>
    /\ c_target \notin Range(d_cycle)
    /\ Len(c_sent) > 0
    /\ ~c_faulted

\* C23: change_setting with a target value that the device's edit cycle does
\* not contain returns failure with a message saying the value is "not
\* available", both for a value unknown everywhere ("ZZ") and for a
\* catalogued value missing on this device's firmware ("02" on a device
\* cycling 08/11/14/17).
C23_NotAvailable ==
    TargetNotOnDevice =>
       /\ ~c_result.ok
       /\ c_result.msg = "not available"

(***************************************************************************)
(* Claims about start_calibration and abort_calibration (checked under     *)
(* SpecCalOps and SpecCalOpsLive).                                         *)
(***************************************************************************)
\* C24: a calibration that is RUNNING eventually becomes COMPLETED once the
\* device has stopped discharging.
C24_RunningCompletes ==
    (cal_state = "RUNNING" /\ ~dev_cal) ~> (cal_state = "COMPLETED")

\* C25: the calibration machine enters ABORTED only from RUNNING.
C25_AbortedOnlyFromRunning ==
    [][(cal_state' = "ABORTED" /\ cal_state # "ABORTED") => cal_state = "RUNNING"]_vars

\* C26: a second calibration cannot be started while one is active: until
\* the machine has been reset to IDLE at most one start_calibration passes
\* the can_start gate, enters CHECKING and sends 'D', so every entry into
\* CHECKING is made from IDLE.
C26_OneStartPerIdle ==
    [][(\E t \in Callers : a_pc[t] = "check" /\ a_pc'[t] = "send") =>
          cal_state = "IDLE"]_vars

\* C27: when start_calibration has entered CHECKING, then on return the
\* machine is RUNNING if the device accepted, and FAILED with a recorded
\* message if the device rejected, answered unexpectedly, did not answer, or
\* the transport raised an error; it is never left in CHECKING.
C27_CheckingIsLeft ==
    \A t \in Callers :
       (/\ a_op[t] = "start_calibration"
        /\ a_pc[t] = "rel"
        /\ a_out[t] # "none") =>
          /\ cal_state # "CHECKING"
          /\ a_out[t] = "OK" => cal_state = "RUNNING"
          /\ a_out[t] # "OK" => (cal_state = "FAILED" /\ error_message # "")

(***************************************************************************)
(* Claims about the command operations (checked under SpecCmds).           *)
(***************************************************************************)
\* the answer the operation got is one it enumerates as acceptable
Acceptable == q_resp.some /\ q_resp.text \in Enumerated(q_op)

\* C28: every simple and dangerous command operation returns success only
\* when the response of the device is one of the acceptable responses the
\* operation enumerates; any other response, no response included, gives a
\* failure whose message includes the raw response.
C28_OnlyEnumeratedSucceed ==
    (q_pc = "ret" /\ q_resp # NotAsked) =>
        /\ q_result.ok => Acceptable
        /\ ~Acceptable => (~q_result.ok /\ Mentions(q_result.msg, Shown(q_resp)))

(***************************************************************************)
(* Claims about the poll worker's error handling (checked under            *)
(* SpecPollErr).                                                           *)
(***************************************************************************)
\* C29: an I/O exception raised by a device read during a poll cycle is
\* caught, its text is recorded into state.last_error, and the poll worker
\* keeps running and starts the next cycle: at the end of a cycle in which a
\* read raised, last_error holds the text of that exception, and the worker
\* ends only when it is told to stop.
C29_ReadErrorRecorded ==
    /\ (w_pc = "wait" /\ w_raised # "") => w_last_error = w_raised
    /\ w_pc = "done" => w_stop

(***************************************************************************)
(* Claims about the transport (checked under SpecWire).                    *)
(***************************************************************************)
\* wire[i] is send_setting_edit's write of its customizing command
IsEditCmdWrite(i) ==
    wire[i].op = "write" /\ wire[i].data \in EditCmds

\* wire[j] is the write of the edit-advance character that follows wire[i]
\* in the same call: the next write of the same thread
IsItsDash(i, j) ==
    /\ i < j
    /\ wire[j].by = wire[i].by /\ wire[j].op = "write" /\ wire[j].data = "-"
    /\ \A k \in (i + 1)..(j - 1) : ~(wire[k].by = wire[i].by /\ wire[k].op = "write")

\* C30: within one send_setting_edit(c) no byte of another thread is written
\* to the transport between the write of c and the write of "-", and the
\* only transport operations between them are the reads of the current
\* value.
C30_EditPairAtomic ==
    \A i \in 1..Len(wire) : \A j \in 1..Len(wire) :
        (IsEditCmdWrite(i) /\ IsItsDash(i, j)) =>
            \A k \in (i + 1)..(j - 1) :
                wire[k].by = wire[i].by /\ wire[k].op = "read"

\* an edit has written its command and its "-" while the other two threads
\* were using the transport as well
C30_Witness ==
    /\ \E i \in 1..Len(wire) : \E j \in 1..Len(wire) :
           IsEditCmdWrite(i) /\ IsItsDash(i, j)
    /\ \E k \in 1..Len(wire) : wire[k].by = "poll" /\ wire[k].op = "write"
    /\ t_pc["u2"] = "acq" /\ t_pc["poll"] = "acq" /\ t_pc["u1"] = "read2"

(***************************************************************************)
(* Claims about the rhythm of the poll worker (checked under SpecPollErr). *)
(***************************************************************************)
\* the worker is in the slow loop or in the computations that follow it
InSlowPoll == w_phase = "slow" /\ w_pc \in {"read", "post_slow"}

\* C31: the slow-poll commands are read on exactly every 5th completed fast
\* poll cycle and on no other cycle, and the cycle counter is reset to 0 each
\* time the slow poll runs.
C31_SlowEveryFifth ==
    /\ [](InSlowPoll => (w_fast_done > 0 /\ w_fast_done % 5 = 0 /\ w_slow = 0))
    /\ [][(w_fast_done' = w_fast_done + 1) =>
            IF w_fast_done' % 5 = 0
            THEN w_phase' = "slow" /\ w_pc' = "read" /\ w_idx' = 1 /\ w_slow' = 0
            ELSE w_pc' = "wait" /\ w_phase' = "fast"]_vars

\* the slow poll runs for the second time, after the tenth fast cycle
C31_Witness == InSlowPoll /\ w_fast_done = 10 /\ w_pc = "read"

(***************************************************************************)
(* Claims about the temperature alert (checked under SpecTemp).            *)
(***************************************************************************)
\* this step is a run of _check_temperature
IsCheck == h_pc = "check" /\ h_pc' = "idle"
AtOrAbove == h_temperature >= h_threshold

\* C32: the temperature alert is edge-triggered: a warning is emitted and the
\* flag set only on a check where the temperature is at or above the
\* threshold and the flag was false; the flag is cleared only on a check
\* where the temperature is below the threshold and the flag was true; a
\* check that does not cross the threshold changes neither the flag nor
\* emits a message; nothing but a check changes the flag.
C32_EdgeTriggered ==
    /\ [][IsCheck =>
            /\ ((h_active' /\ ~h_active) \/ h_said' = "WARNING: exceeds threshold")
                   => (AtOrAbove /\ ~h_active /\ h_active'
                       /\ h_said' = "WARNING: exceeds threshold")
            /\ (~h_active' /\ h_active) => (~AtOrAbove /\ h_active)
            /\ (AtOrAbove <=> h_active) => (h_active' = h_active /\ h_said' = "none")]_vars
    /\ [][~IsCheck => (h_active' = h_active /\ h_said' = h_said)]_vars

\* a check has just raised the alert at a temperature equal to the threshold
C32_Witness ==
    /\ h_pc = "idle" /\ h_active /\ h_said = "WARNING: exceeds threshold"
    /\ h_temperature = h_threshold

(***************************************************************************)
(* Claims about the worker threads (checked under SpecWorkers and          *)
(* SpecWorkersLive).                                                       *)
(***************************************************************************)
\* C35: at most one poll worker thread is running at any time, after any
\* sequence of start_polling, stop_polling, disconnect and reconnect calls,
\* also when the bounded join of stop_polling times out before the worker
\* has ended.
C35_OneWorker == Cardinality({w \in Workers : WorkerRuns(w)}) <= 1

\* C33: after stop_polling has set the stop flag, the poll worker eventually
\* terminates from every point of its loop, also while it waits on a closed
\* pause gate, and before it terminates it sends at most the one device
\* command already in progress.
C33_StopTerminates ==
    /\ [](\A w \in Workers : g_after[w] <= 1)
    /\ \A w \in Workers : (g_stopped[w] /\ WorkerRuns(w)) ~> ~WorkerRuns(w)

(***************************************************************************)
(* Claims about the connection lifecycle (checked under Spec).             *)
(***************************************************************************)
\* no thread is inside connect or disconnect
LifecycleQuiet ==
    \A t \in Callers : op[t] \in {"connect", "disconnect"} => pc[t] \in {"idle", "ret"}

\* the threads running a user operation (one that begins with the
\* "Not connected" test)
InUserOperation(t) ==
    /\ op[t] \notin {"none", "connect", "disconnect", "start_polling"}
    /\ pc[t] # "idle"

\* C37: the protocol handle is present only while connected: _protocol is
\* not None implies state.connected, so after a connect() that failed every
\* user operation returns "Not connected" without touching the transport or
\* raising.
C37_ProtocolOnlyWhileConnected ==
    LifecycleQuiet =>
        /\ protocol => connected
        /\ \A t \in Callers : (InUserOperation(t) /\ ~connected) => ~exc[t]

(***************************************************************************)
(* Claims about the pause gate of the user operations (checked under Spec).*)
(***************************************************************************)
\* the pause-guarded operations other than the PROG-mode ones
GuardedOps == PausingOps \ {"enter_prog_mode"}

\* C36: every pause-guarded user operation other than the PROG-mode ones
\* closes the pause gate before its first device command and, on every exit
\* path, an exception from the transport included, leaves the pause gate
\* open and the command mutex released.
C36_PauseGuardBalanced ==
    /\ [][\A t \in Callers : op[t] \in GuardedOps =>
            /\ (pc[t] = "pause" /\ pc'[t] # "pause") => ~poll_paused'
            /\ (pc'[t] = FirstBody(op[t]) /\ pc[t] # pc'[t]) => pc[t] = "pause"
            /\ (pc[t] = "rel" /\ pc'[t] # "rel") =>
                   (poll_paused' /\ cmd_lock' = "none" /\ resumes[t] = 1)
            /\ (pc'[t] = "ret" /\ pc[t] # "ret" /\ entered[t]) => pc[t] = "rel"]_vars
    /\ [](\A t \in Callers : (op[t] \in GuardedOps /\ pc[t] = "ret") => cmd_lock # t)

\* a guarded operation has left through its finally clause after the
\* transport raised, and the gate is open and the mutex free
C36_Witness ==
    \E t \in Callers :
        /\ op[t] \in GuardedOps /\ pc[t] = "ret" /\ entered[t] /\ exc[t]
        /\ poll_paused /\ cmd_lock = "none"

\* a thread has entered PROG mode with success and has not yet gone on to
\* another call: a moment between enter_prog_mode and the next exit_prog_mode
ProgSessionOpen ==
    \E t \in Callers :
        op[t] = "enter_prog_mode" /\ pc[t] = "ret" /\ success[t] = "true"

\* C38: between a successful enter_prog_mode and the next exit_prog_mode the
\* poll worker sends no command to the device, whatever other user
\* operations are invoked in between and however long the session lasts.
C38_NoPollInProgMode ==
    [][ProgSessionOpen => ~(ppc = "read" /\ ppc' = "resp")]_vars

\* this step is disconnect closing the transport or dropping the protocol
DisconnectTakesEffect ==
    \E u \in Callers :
        /\ op[u] = "disconnect"
        /\ pc[u] \in {"d_close", "d_drop"}
        /\ pc'[u] # pc[u]

\* C40: disconnect never closes the transport or drops the protocol handle
\* while a user command sequence is between its first and its last device
\* command: a disconnect issued concurrently with change_setting takes
\* effect only before the sequence starts or after it has ended.
C40_DisconnectOutsideSequence ==
    [][DisconnectTakesEffect => \A t \in Callers : ~MidSequence(t)]_vars

(***************************************************************************)
(* More claims about the calibration operations (checked under SpecCalOps).*)
(***************************************************************************)
TerminalStates == {"FAILED", "ABORTED", "COMPLETED"}

\* C39: while the calibration machine is in a terminal state (FAILED, ABORTED
\* or COMPLETED) start_calibration returns failure without sending any
\* command to the device and without changing the machine state; only
\* reset() returns the machine to IDLE.
C39_TerminalUntilReset ==
    /\ [][\A t \in Callers :
            (a_op[t] = "start_calibration" /\ a_pc'[t] # a_pc[t]
                 /\ cal_state \in TerminalStates) =>
                /\ cal_state' = cal_state
                /\ a_pc[t] # "send"
                /\ a_pc[t] = "gate" => (a_pc'[t] = "ret" /\ ~a_ok'[t])]_vars
    /\ [][(cal_state' = "IDLE" /\ cal_state # "IDLE") => cal_last' = "reset"]_vars

(***************************************************************************)
(* Claims about SerialConnection.open (checked under SpecOpenLive).        *)
(***************************************************************************)
OnlyTransientFailures ==
    /\ o_outcomes # <<>>
    /\ \A i \in 1..Len(o_outcomes) : o_outcomes[i] \in TransientErrors

\* C34: open(port) makes at most OPEN_RETRIES (4) attempts; it returns on
\* the first attempt that succeeds and attempts nothing after it; when every
\* attempt fails with a transient port error it ends by raising the error of
\* the last attempt with the transport not open; every call ends.
C34_OpenBoundedRetries ==
    /\ [](Len(o_outcomes) <= OPEN_RETRIES)
    /\ [](\A i \in 1..(Len(o_outcomes) - 1) : o_outcomes[i] # "ok")
    /\ [](o_pc = "ret" <=>
            (o_outcomes # <<>> /\ o_outcomes[Len(o_outcomes)] = "ok"))
    /\ [][(o_pc = "try" /\ o_pc' = "ret") => (o_port' = "open" /\ ~o_lock')]_vars
    /\ []((o_pc = "raised" /\ OnlyTransientFailures) =>
            /\ Len(o_outcomes) = OPEN_RETRIES
            /\ o_raised = <<o_outcomes[OPEN_RETRIES], OPEN_RETRIES - 1>>
            /\ o_port = "none"
            /\ ~o_lock)
    /\ (o_pc = "entry") ~> (o_pc \in {"ret", "raised"})

\* the second call of a behaviour, made on an open transport, failed four
\* times and raised the fourth error
C34_Witness ==
    /\ o_calls = 2
    /\ o_pc = "raised"
    /\ o_outcomes = <<"PermissionError", "SerialException",
                      "SerialException", "PermissionError">>
    /\ o_raised = <<"PermissionError", 3>>
    /\ o_port = "none"

====
